---- MODULE Spec2Model ----
(***************************************************************************)
(* A model of the core of the database-stream-processor (DBSP) engine:     *)
(*   - the multithreaded runtime (circuit/runtime.rs): the kill/join       *)
(*     termination protocol and the per-worker sequence counter;           *)
(*   - consolidation of (key, weight) vectors (trace/consolidation.rs);    *)
(*   - the pair cursor (trace/cursor/cursor_pair.rs);                      *)
(*   - the aggregation operators (operator/aggregate.rs);                  *)
(*   - the group-transform operator (operator/group/mod.rs).               *)
(* Each part has its own specification over its own variables; the        *)
(* variables of the other parts stay at their idle values.                 *)
(***************************************************************************)
EXTENDS Integers, Sequences, FiniteSets, TLC

VARIABLES
    \* runtime: termination protocol
    worker_pc,      \* position of each worker thread
    step_result,    \* what the worker's last step() returned
    kill_signal,    \* KILL_SIGNAL of each worker thread
    parker_token,   \* token of each worker's PARKER
    handle_op,      \* which RuntimeHandle method the client called
    handle_pc,      \* position inside that method
    handle_i,       \* index of the worker the method's loop is at
    \* runtime: sequence_next
    seq_pc,         \* position of each thread inside sequence_next
    seq_index,      \* the worker_index argument of the call in progress
    seq_result,     \* the local `result`
    local_store,    \* the WorkerId entries of the runtime's local store
    entry_guard,    \* which thread holds the entry of each WorkerId
    seq_log,        \* per worker index, the calls that returned, in order
    \* consolidation
    cons_input,     \* the vector as the caller passed it
    cons_from,      \* the `offset` argument of consolidate_from
    cons_vec,       \* the vector being consolidated
    cons_offset,    \* the local `offset` of consolidate_slice (write index)
    cons_index,     \* the loop variable `index` (read index)
    cons_pc,        \* position inside consolidate_from
    cons_pass,      \* 1 in the first call of consolidate, 2 in a second call
    cons_first,     \* what the first call left, once a second call started
    \* pair cursor
    cp,             \* the CursorPair with its two underlying cursors
    cp_origin,      \* how the pair got its key position: new, rewind, fast_forward
    cp_sought,      \* whether a seek moved the pair since then
    cp_keys,        \* the keys the pair presented since then, in order
    cp_vals,        \* the <<value, weight>> pairs presented under the current key
    cp_last,        \* the last operation applied to the pair
    \* aggregates
    agg_mode,       \* which circuit runs: root or nested
    agg_f,          \* the aggregation function
    agg_epoch,      \* the epoch of the child circuit's outer clock
    agg_tick,       \* ticks of the (inner) clock so far
    agg_delta,      \* the input of the last tick
    inc_state,      \* registers of the incremental aggregate's operators
    ref_state,      \* registers of the reference circuit's operators
    out_inc,        \* output of the incremental aggregate at the last tick
    inc_ops,        \* what its two AggregateIncremental operators were
                    \* handed and returned at the last tick
    out_ref,        \* output of the reference circuit at the last tick
    \* group transform
    gt_t,           \* the transformer the operator wraps
    gt_tick,        \* ticks so far
    gt_delta,       \* the input of the last tick
    gt_input_trace, \* integral of the inputs
    gt_output_before, \* the output trace the last tick read
    gt_output_trace, \* integral of the outputs
    gt_pushed,      \* the tuples the last tick pushed to the builder
    gt_calls,       \* the invocations of the transformer in the last tick
    \* finite maps
    fm,             \* two FiniteHashMaps a and b: their underlying HashMaps
    fm_acc,         \* per map and key, the value accumulated by the calls
    fm_last,        \* the last operation applied
    \* checked integers
    ci_x,           \* self
    ci_y,           \* other
    ci_op,          \* the operation applied
    ci_out,         \* what it returned, or the panic
    \* product timestamps
    ts_T,           \* the timestamp type: how deep the products nest
    ts_a,           \* self
    ts_b,           \* other
    ts_op,          \* the operation applied
    ts_out,         \* what it returned
    \* Runtime::run and RuntimeHandle::join
    run_n,          \* the nworkers argument
    run_pc,         \* position of the client thread
    run_i,          \* the loop variable of the client's current loop
    run_workers,    \* the `workers` vector: indexes whose handle was pushed
    th_pc,          \* position of each worker thread
    RUNTIME,        \* thread-local RUNTIME of each thread
    WORKER_INDEX,   \* thread-local WORKER_INDEX of each thread
    KILL_SIGNAL,    \* thread-local KILL_SIGNAL of each thread
    f_runs,         \* per worker thread, how many times the closure ran
    f_obs,          \* per thread, what it observed through the Runtime API
    join_results,   \* the `results` vector of join
    join_ret,       \* what join returned
    \* the Aggregate operator on its own
    ag_f,           \* the aggregation function
    ag_i,           \* the input indexed Z-set
    ag_elements,    \* the `elements` vector when the loop ended
    ag_o,           \* the output Z-set
    ag_pc,          \* whether eval ran
    \* query q21
    q21_event,      \* the input event
    q21_weight,     \* its weight in the input Z-set
    q21_out,        \* what the query emitted for it, with the weight
    q21_pc,         \* whether the query ran
    \* the fixed-point query
    fp_ops,         \* the operators of the nested scope
    fp_scope,       \* the scope the scheduler asks about
    fp_i,           \* how many operators were asked
    fp_out,         \* the answer so far
    \* advance
    adv_slice,      \* the slice handed to advance
    adv_bound,      \* the predicate is |x| x < adv_bound
    adv_pc,         \* whether advance ran
    adv_out,        \* what advance returned
    adv_reads       \* the indexes at which advance read the slice

rtVars == <<worker_pc, step_result, kill_signal, parker_token,
            handle_op, handle_pc, handle_i>>
seqVars == <<seq_pc, seq_index, seq_result, local_store, entry_guard, seq_log>>
consVars == <<cons_input, cons_from, cons_vec, cons_offset, cons_index, cons_pc,
              cons_pass, cons_first>>
cpVars == <<cp, cp_origin, cp_sought, cp_keys, cp_vals, cp_last>>
aggVars == <<agg_mode, agg_f, agg_epoch, agg_tick, agg_delta,
             inc_state, ref_state, out_inc, inc_ops, out_ref>>
gtVars == <<gt_t, gt_tick, gt_delta, gt_input_trace, gt_output_before,
            gt_output_trace, gt_pushed, gt_calls>>
fmVars == <<fm, fm_acc, fm_last>>
ciVars == <<ci_x, ci_y, ci_op, ci_out>>
tsVars == <<ts_T, ts_a, ts_b, ts_op, ts_out>>
runVars == <<run_n, run_pc, run_i, run_workers, th_pc, RUNTIME, WORKER_INDEX,
             KILL_SIGNAL, f_runs, f_obs, join_results, join_ret>>
agVars == <<ag_f, ag_i, ag_elements, ag_o, ag_pc>>
q21Vars == <<q21_event, q21_weight, q21_out, q21_pc>>
fpVars == <<fp_ops, fp_scope, fp_i, fp_out>>
advVars == <<adv_slice, adv_bound, adv_pc, adv_out, adv_reads>>
vars == <<rtVars, seqVars, consVars, cpVars, aggVars, gtVars,
          fmVars, ciVars, tsVars, runVars, agVars, q21Vars, fpVars, advVars>>

\* What the actions of one part leave unchanged: the other parts.
othersRt == <<seqVars, consVars, cpVars, aggVars, gtVars, fmVars,
    ciVars, tsVars, runVars, agVars, q21Vars, fpVars, advVars>>
othersSeq == <<rtVars, consVars, cpVars, aggVars, gtVars, fmVars,
    ciVars, tsVars, runVars, agVars, q21Vars, fpVars, advVars>>
othersCons == <<rtVars, seqVars, cpVars, aggVars, gtVars, fmVars,
    ciVars, tsVars, runVars, agVars, q21Vars, fpVars, advVars>>
othersCp == <<rtVars, seqVars, consVars, aggVars, gtVars, fmVars,
    ciVars, tsVars, runVars, agVars, q21Vars, fpVars, advVars>>
othersAgg == <<rtVars, seqVars, consVars, cpVars, gtVars, fmVars,
    ciVars, tsVars, runVars, agVars, q21Vars, fpVars, advVars>>
othersGt == <<rtVars, seqVars, consVars, cpVars, aggVars, fmVars,
    ciVars, tsVars, runVars, agVars, q21Vars, fpVars, advVars>>
othersFm == <<rtVars, seqVars, consVars, cpVars, aggVars, gtVars,
    ciVars, tsVars, runVars, agVars, q21Vars, fpVars, advVars>>
othersCi == <<rtVars, seqVars, consVars, cpVars, aggVars, gtVars,
    fmVars, tsVars, runVars, agVars, q21Vars, fpVars, advVars>>
othersTs == <<rtVars, seqVars, consVars, cpVars, aggVars, gtVars,
    fmVars, ciVars, runVars, agVars, q21Vars, fpVars, advVars>>
othersRun == <<rtVars, seqVars, consVars, cpVars, aggVars, gtVars,
    fmVars, ciVars, tsVars, agVars, q21Vars, fpVars, advVars>>
othersAg == <<rtVars, seqVars, consVars, cpVars, aggVars, gtVars,
    fmVars, ciVars, tsVars, runVars, q21Vars, fpVars, advVars>>
othersQ21 == <<rtVars, seqVars, consVars, cpVars, aggVars, gtVars,
    fmVars, ciVars, tsVars, runVars, agVars, fpVars, advVars>>
othersFp == <<rtVars, seqVars, consVars, cpVars, aggVars, gtVars,
    fmVars, ciVars, tsVars, runVars, agVars, q21Vars, advVars>>
othersAdv == <<rtVars, seqVars, consVars, cpVars, aggVars, gtVars,
    fmVars, ciVars, tsVars, runVars, agVars, q21Vars, fpVars>>

(***************************************************************************)
(* Bounds of the model.                                                    *)
(***************************************************************************)
NumWorkers == 2
MaxSeq == 2
MaxLen == 4
MaxEntries == 2
MaxTicks == 3
MaxEpochs == 2
IterationsPerEpoch == 2

Min(a, b) == IF a <= b THEN a ELSE b
Max(a, b) == IF a >= b THEN a ELSE b

(***************************************************************************)
(* RUNTIME: Runtime::run spawns nworkers threads with indexes 0..n-1.      *)
(***************************************************************************)
Workers == 0 .. (NumWorkers - 1)

Absent == -1
NoThread == -1

\* The state Runtime::run returns in: every worker thread has sent its
\* unparker and kill signal and runs the closure; the flags are false and
\* no parker holds a token.
InitRuntime ==
    /\ worker_pc = [w \in Workers |-> "check"]
    /\ step_result = [w \in Workers |-> "none"]
    /\ kill_signal = [w \in Workers |-> FALSE]
    /\ parker_token = [w \in Workers |-> FALSE]
    /\ handle_op = "none"
    /\ handle_pc = "held"
    /\ handle_i = 0

\* A kill_in_progress that never sees the signal.
kill_in_progress_Never(w) == FALSE

\* Runtime::kill_in_progress, called in worker thread w.
kill_in_progress(w) == kill_signal[w]

\* The scheduler's check before it evaluates the next operator and after
\* it returns from parking: a set flag makes step() return Killed;
\* otherwise the scheduler evaluates a ready operator or, with none ready,
\* parks.
SchedulerCheck(w) ==
    /\ worker_pc[w] = "check"
    /\ IF kill_in_progress(w)
         THEN /\ worker_pc' = [worker_pc EXCEPT ![w] = "killed"]
              /\ step_result' = [step_result EXCEPT ![w] = "Killed"]
         ELSE /\ \E next \in {"eval", "park"} :
                    worker_pc' = [worker_pc EXCEPT ![w] = next]
              /\ UNCHANGED step_result
    /\ UNCHANGED <<kill_signal, parker_token, handle_op, handle_pc, handle_i>>
    /\ UNCHANGED othersRt

\* An operator runs to completion; the scheduler comes back to its check.
OperatorEval(w) ==
    /\ worker_pc[w] = "eval"
    /\ worker_pc' = [worker_pc EXCEPT ![w] = "check"]
    /\ UNCHANGED <<step_result, kill_signal, parker_token,
                   handle_op, handle_pc, handle_i>>
    /\ UNCHANGED othersRt

\* Parker::park on the worker's own parker: blocks until the token is
\* there and consumes it.
ParkerPark(w) ==
    /\ worker_pc[w] = "park"
    /\ parker_token[w]
    /\ parker_token' = [parker_token EXCEPT ![w] = FALSE]
    /\ worker_pc' = [worker_pc EXCEPT ![w] = "check"]
    /\ UNCHANGED <<step_result, kill_signal, handle_op, handle_pc, handle_i>>
    /\ UNCHANGED othersRt

\* park may also return spuriously, without consuming a token.
ParkerSpurious(w) ==
    /\ worker_pc[w] = "park"
    /\ worker_pc' = [worker_pc EXCEPT ![w] = "check"]
    /\ UNCHANGED <<step_result, kill_signal, parker_token,
                   handle_op, handle_pc, handle_i>>
    /\ UNCHANGED othersRt

\* The worker closure of test_kill: loop { if step().is_err() { return } }.
\* The closure returns and the worker thread terminates.
WorkerReturn(w) ==
    /\ worker_pc[w] = "killed"
    /\ step_result[w] = "Killed"
    /\ worker_pc' = [worker_pc EXCEPT ![w] = "exited"]
    /\ UNCHANGED <<step_result, kill_signal, parker_token,
                   handle_op, handle_pc, handle_i>>
    /\ UNCHANGED othersRt

\* The client calls RuntimeHandle::kill and enters its loop over workers.
KillCall ==
    /\ handle_op = "none"
    /\ handle_op' = "kill"
    /\ handle_pc' = "store"
    /\ handle_i' = 0
    /\ UNCHANGED <<worker_pc, step_result, kill_signal, parker_token>>
    /\ UNCHANGED othersRt

\* A store that always goes to the flag of the first worker.
KillStore_First ==
    /\ handle_op = "kill"
    /\ handle_pc = "store"
    /\ kill_signal' = [kill_signal EXCEPT ![0] = TRUE]
    /\ handle_pc' = "unpark"
    /\ UNCHANGED <<worker_pc, step_result, parker_token, handle_op, handle_i>>
    /\ UNCHANGED othersRt

\* worker.kill_signal.store(true, SeqCst)
KillStore_Lost ==
    /\ handle_op = "kill"
    /\ handle_pc = "store"
    /\ handle_pc' = "unpark"
    /\ UNCHANGED <<worker_pc, step_result, kill_signal, parker_token,
                   handle_op, handle_i>>
    /\ UNCHANGED othersRt

KillStore ==
    /\ handle_op = "kill"
    /\ handle_pc = "store"
    /\ kill_signal' = [kill_signal EXCEPT ![handle_i] = TRUE]
    /\ handle_pc' = "unpark"
    /\ UNCHANGED <<worker_pc, step_result, parker_token, handle_op, handle_i>>
    /\ UNCHANGED othersRt

\* The loop of kill without the unpark.
KillUnpark_NoToken ==
    /\ handle_op = "kill"
    /\ handle_pc = "unpark"
    /\ IF handle_i + 1 < NumWorkers
         THEN handle_pc' = "store" /\ handle_i' = handle_i + 1
         ELSE handle_pc' = "join" /\ handle_i' = 0
    /\ UNCHANGED <<worker_pc, step_result, kill_signal, parker_token, handle_op>>
    /\ UNCHANGED othersRt

\* worker.unparker.unpark(), then the next worker or self.join()
KillUnpark ==
    /\ handle_op = "kill"
    /\ handle_pc = "unpark"
    /\ parker_token' = [parker_token EXCEPT ![handle_i] = TRUE]
    /\ IF handle_i + 1 < NumWorkers
         THEN handle_pc' = "store" /\ handle_i' = handle_i + 1
         ELSE handle_pc' = "join" /\ handle_i' = 0
    /\ UNCHANGED <<worker_pc, step_result, kill_signal, handle_op>>
    /\ UNCHANGED othersRt

\* The client calls RuntimeHandle::join directly.
JoinCall ==
    /\ handle_op = "none"
    /\ handle_op' = "join"
    /\ handle_pc' = "join"
    /\ handle_i' = 0
    /\ UNCHANGED <<worker_pc, step_result, kill_signal, parker_token>>
    /\ UNCHANGED othersRt

\* h.join_handle.join() returns once that worker thread has terminated;
\* after the last worker the method returns.
JoinWorker ==
    /\ handle_pc = "join"
    /\ worker_pc[handle_i] = "exited"
    /\ IF handle_i + 1 < NumWorkers
         THEN handle_pc' = "join" /\ handle_i' = handle_i + 1
         ELSE handle_pc' = "done" /\ handle_i' = handle_i
    /\ UNCHANGED <<worker_pc, step_result, kill_signal, parker_token, handle_op>>
    /\ UNCHANGED othersRt

(***************************************************************************)
(* RUNTIME: Runtime::sequence_next.  The entry returned by                 *)
(* local_store().entry(WorkerId(i)).or_insert(0) is a guard that keeps the *)
(* entry locked until it is dropped when the method returns.               *)
(***************************************************************************)
IdleSeq ==
    /\ seq_pc = [t \in Workers |-> "idle"]
    /\ seq_index = [t \in Workers |-> 0]
    /\ seq_result = [t \in Workers |-> 0]
    /\ local_store = [i \in Workers |-> Absent]
    /\ entry_guard = [i \in Workers |-> NoThread]
    /\ seq_log = [i \in Workers |-> <<>>]

\* .entry(WorkerId(worker_index)).or_insert(0), without taking the guard
SequenceNextEntry_Unguarded(t, i) ==
    /\ seq_pc[t] = "idle"
    /\ local_store[i] < MaxSeq
    /\ local_store' = [local_store EXCEPT ![i] = IF @ = Absent THEN 0 ELSE @]
    /\ seq_pc' = [seq_pc EXCEPT ![t] = "entry"]
    /\ seq_index' = [seq_index EXCEPT ![t] = i]
    /\ UNCHANGED <<seq_result, entry_guard, seq_log>>
    /\ UNCHANGED othersSeq

\* Thread t calls sequence_next(i): it waits for the entry of WorkerId(i),
\* takes it, and inserts 0 if the key is vacant.
SequenceNextEntry(t, i) ==
    /\ seq_pc[t] = "idle"
    /\ entry_guard[i] = NoThread
    /\ local_store[i] < MaxSeq
    /\ entry_guard' = [entry_guard EXCEPT ![i] = t]
    /\ local_store' = [local_store EXCEPT ![i] = IF @ = Absent THEN 0 ELSE @]
    /\ seq_pc' = [seq_pc EXCEPT ![t] = "entry"]
    /\ seq_index' = [seq_index EXCEPT ![t] = i]
    /\ UNCHANGED <<seq_result, seq_log>>
    /\ UNCHANGED othersSeq

\* A load that gives the entry up before the increment.
SequenceNextLoad_Release(t) ==
    /\ seq_pc[t] = "entry"
    /\ seq_result' = [seq_result EXCEPT ![t] = local_store[seq_index[t]]]
    /\ entry_guard' = [entry_guard EXCEPT ![seq_index[t]] = NoThread]
    /\ seq_pc' = [seq_pc EXCEPT ![t] = "loaded"]
    /\ UNCHANGED <<seq_index, local_store, seq_log>>
    /\ UNCHANGED othersSeq

\* let result = *entry + worker_index;
SequenceNextLoad_Index(t) ==
    /\ seq_pc[t] = "entry"
    /\ seq_result' = [seq_result EXCEPT
                         ![t] = local_store[seq_index[t]] + seq_index[t]]
    /\ seq_pc' = [seq_pc EXCEPT ![t] = "loaded"]
    /\ UNCHANGED <<seq_index, local_store, entry_guard, seq_log>>
    /\ UNCHANGED othersSeq

\* let result = *entry;
SequenceNextLoad(t) ==
    /\ seq_pc[t] = "entry"
    /\ seq_result' = [seq_result EXCEPT ![t] = local_store[seq_index[t]]]
    /\ seq_pc' = [seq_pc EXCEPT ![t] = "loaded"]
    /\ UNCHANGED <<seq_index, local_store, entry_guard, seq_log>>
    /\ UNCHANGED othersSeq

\* *entry += 1; result   (the entry guard is dropped on return, and the
\* locals of the call are gone)
SequenceNextReturn(t) ==
    /\ seq_pc[t] = "loaded"
    /\ local_store' = [local_store EXCEPT ![seq_index[t]] = @ + 1]
    /\ entry_guard' = [entry_guard EXCEPT
                          ![seq_index[t]] = IF @ = t THEN NoThread ELSE @]
    /\ seq_log' = [seq_log EXCEPT ![seq_index[t]] =
                      Append(@, [caller |-> t, result |-> seq_result[t]])]
    /\ seq_pc' = [seq_pc EXCEPT ![t] = "idle"]
    /\ seq_index' = [seq_index EXCEPT ![t] = 0]
    /\ seq_result' = [seq_result EXCEPT ![t] = 0]
    /\ UNCHANGED othersSeq

(***************************************************************************)
(* CONSOLIDATION (trace/consolidation.rs).  A vector is a sequence of      *)
(* <<key, weight>> pairs; slice[i] of the code is                          *)
(* cons_vec[cons_from + i + 1].                                            *)
(***************************************************************************)
ConsKeys == 1 .. 3
ConsWeights == -1 .. 1

\* All sequences over S of length at most n.
SeqsUpTo(S, n) == UNION {[1 .. m -> S] : m \in 0 .. n}

\* slice.sort_by(|(key1, _), (key2, _)| key1.cmp(key2)): a stable sort, so
\* an element goes behind the elements with an equal key that precede it.
RECURSIVE InsertByKey(_, _)
InsertByKey(sorted, e) ==
    IF sorted = <<>> THEN <<e>>
    ELSE IF sorted[Len(sorted)][1] <= e[1] THEN Append(sorted, e)
    ELSE Append(InsertByKey(SubSeq(sorted, 1, Len(sorted) - 1), e),
                sorted[Len(sorted)])

RECURSIVE SortByKey(_)
SortByKey(s) ==
    IF s = <<>> THEN <<>>
    ELSE InsertByKey(SortByKey(SubSeq(s, 1, Len(s) - 1)), s[Len(s)])

\* R::is_zero
is_zero(w) == w = 0

\* ptr::swap of the elements at positions a and b
Swap(s, a, b) == [s EXCEPT ![a] = s[b], ![b] = s[a]]

IdleCons ==
    /\ cons_input = <<>>
    /\ cons_from = 0
    /\ cons_vec = <<>>
    /\ cons_offset = 0
    /\ cons_index = 0
    /\ cons_pc = "idle"
    /\ cons_pass = 1
    /\ cons_first = <<>>

\* A caller passes any vector and any offset within it.
InitCons ==
    /\ cons_input \in SeqsUpTo(ConsKeys \X ConsWeights, MaxLen)
    /\ cons_from \in 0 .. Len(cons_input)
    /\ cons_vec = cons_input
    /\ cons_offset = 0
    /\ cons_index = 0
    /\ cons_pc = "sort"
    /\ cons_pass = 1
    /\ cons_first = <<>>

\* The length of the slice vec[offset..]
SliceLen == Len(cons_vec) - cons_from

\* A sort of the whole vector instead of vec[offset..].
ConsolidateSort_Whole ==
    /\ cons_pc = "sort"
    /\ cons_vec' = SortByKey(cons_vec)
    /\ cons_offset' = 0
    /\ cons_index' = 1
    /\ cons_pc' = "loop"
    /\ UNCHANGED <<cons_input, cons_from, cons_pass, cons_first>>
    /\ UNCHANGED othersCons

\* A loop that starts at index 0.
ConsolidateSort_IndexZero ==
    /\ cons_pc = "sort"
    /\ cons_vec' = SubSeq(cons_vec, 1, cons_from)
                   \o SortByKey(SubSeq(cons_vec, cons_from + 1, Len(cons_vec)))
    /\ cons_offset' = 0
    /\ cons_index' = 0
    /\ cons_pc' = "loop"
    /\ UNCHANGED <<cons_input, cons_from, cons_pass, cons_first>>
    /\ UNCHANGED othersCons

\* consolidate_slice: the sort, and the loop's initialisation.
ConsolidateSort ==
    /\ cons_pc = "sort"
    /\ cons_vec' = SubSeq(cons_vec, 1, cons_from)
                   \o SortByKey(SubSeq(cons_vec, cons_from + 1, Len(cons_vec)))
    /\ cons_offset' = 0
    /\ cons_index' = 1
    /\ cons_pc' = "loop"
    /\ UNCHANGED <<cons_input, cons_from, cons_pass, cons_first>>
    /\ UNCHANGED othersCons

\* One iteration that never skips a zero accumulation.
ConsolidateStep_KeepZero ==
    /\ cons_pc = "loop"
    /\ cons_index < SliceLen
    /\ LET p1 == cons_from + cons_offset + 1
           p2 == cons_from + cons_index + 1
       IN  IF cons_vec[p1][1] = cons_vec[p2][1]
             THEN /\ cons_vec' = [cons_vec EXCEPT
                                    ![p1] = <<@[1], @[2] + cons_vec[p2][2]>>]
                  /\ cons_offset' = cons_offset
             ELSE /\ cons_offset' = cons_offset + 1
                  /\ cons_vec' = Swap(cons_vec, cons_from + cons_offset' + 1, p2)
    /\ cons_index' = cons_index + 1
    /\ UNCHANGED <<cons_input, cons_from, cons_pc, cons_pass, cons_first>>
    /\ UNCHANGED othersCons

\* One iteration of `for index in 1..slice.len()`.
ConsolidateStep ==
    /\ cons_pc = "loop"
    /\ cons_index < SliceLen
    /\ LET p1 == cons_from + cons_offset + 1
           p2 == cons_from + cons_index + 1
       IN  IF cons_vec[p1][1] = cons_vec[p2][1]
             THEN /\ cons_vec' = [cons_vec EXCEPT
                                    ![p1] = <<@[1], @[2] + cons_vec[p2][2]>>]
                  /\ cons_offset' = cons_offset
             ELSE /\ cons_offset' = IF ~is_zero(cons_vec[p1][2])
                                      THEN cons_offset + 1 ELSE cons_offset
                  /\ cons_vec' = Swap(cons_vec, cons_from + cons_offset' + 1, p2)
    /\ cons_index' = cons_index + 1
    /\ UNCHANGED <<cons_input, cons_from, cons_pc, cons_pass, cons_first>>
    /\ UNCHANGED othersCons

\* A finish that leaves the vector as long as it was.
ConsolidateFinish_NoTruncate ==
    /\ cons_pc = "loop"
    /\ cons_index >= SliceLen
    /\ LET length == IF cons_offset < SliceLen
                        /\ ~is_zero(cons_vec[cons_from + cons_offset + 1][2])
                       THEN cons_offset + 1 ELSE cons_offset
       IN  /\ cons_offset' = length
           /\ cons_vec' = cons_vec
    /\ cons_pc' = "done"
    /\ UNCHANGED <<cons_input, cons_from, cons_index, cons_pass, cons_first>>
    /\ UNCHANGED othersCons

\* After the loop: the last accumulation counts if it is not zero;
\* consolidate_slice returns offset and consolidate_from truncates the
\* vector to offset + length.
ConsolidateFinish ==
    /\ cons_pc = "loop"
    /\ cons_index >= SliceLen
    /\ LET length == IF cons_offset < SliceLen
                        /\ ~is_zero(cons_vec[cons_from + cons_offset + 1][2])
                       THEN cons_offset + 1 ELSE cons_offset
       IN  /\ cons_offset' = length
           /\ cons_vec' = SubSeq(cons_vec, 1, cons_from + length)
    /\ cons_pc' = "done"
    /\ UNCHANGED <<cons_input, cons_from, cons_index, cons_pass, cons_first>>
    /\ UNCHANGED othersCons

\* consolidate(vec) once more, on the vector that consolidate left.
ConsolidateAgain ==
    /\ cons_pc = "done"
    /\ cons_from = 0
    /\ cons_pass = 1
    /\ cons_pass' = 2
    /\ cons_first' = cons_vec
    /\ cons_input' = cons_vec
    /\ cons_offset' = 0
    /\ cons_index' = 0
    /\ cons_pc' = "sort"
    /\ UNCHANGED <<cons_from, cons_vec>>
    /\ UNCHANGED othersCons

(***************************************************************************)
(* CURSORS.  A batch is a sequence of <<key, vals>> with strictly          *)
(* ascending keys, vals a non-empty sequence of <<value, weight>> with    *)
(* strictly ascending values.  A cursor over a batch is a key position    *)
(* and a value position; position 0 is before the first element and       *)
(* Len + 1 behind the last one.                                            *)
(***************************************************************************)
CursorKeys == 1 .. 3
CursorVals == 1 .. 2
WeightsOne == {-1, 1}
WeightsTwo == {1}

\* The elements of a finite set of integers in ascending order.
RECURSIVE SortedSeq(_)
SortedSeq(S) ==
    IF S = {} THEN <<>>
    ELSE LET m == CHOOSE x \in S : \A y \in S : x <= y
         IN  <<m>> \o SortedSeq(S \ {m})

\* The batch holding weight w[<<k, v>>] for each <<k, v>> of E.
BatchOf(E, w) ==
    LET keys == SortedSeq({e[1] : e \in E})
        vals(k) == SortedSeq({e[2] : e \in {x \in E : x[1] = k}})
    IN  [i \in 1 .. Len(keys) |->
            <<keys[i],
              [j \in 1 .. Len(vals(keys[i])) |->
                  <<vals(keys[i])[j], w[<<keys[i], vals(keys[i])[j]>>]>>]>>]

\* All batches of at most MaxEntries tuples with keys from K that share a
\* weight from W.
BatchesOver(K, W) ==
    UNION {{BatchOf(E, [e \in E |-> w]) : w \in W} :
             E \in {X \in SUBSET (K \X CursorVals) :
                       Cardinality(X) <= MaxEntries}}

Batches(W) == BatchesOver(CursorKeys, W)

\* Ord::cmp
Cmp(a, b) == IF a < b THEN "Less" ELSE IF a = b THEN "Equal" ELSE "Greater"

\* batch.cursor(): a cursor on the first key and its first value
Cursor_new(batch) == [data |-> batch, kpos |-> 1, vpos |-> 1]

Cursor_key_valid(c) == c.kpos >= 1 /\ c.kpos <= Len(c.data)

Cursor_vals(c) == c.data[c.kpos][2]

Cursor_val_valid(c) ==
    /\ Cursor_key_valid(c)
    /\ c.vpos >= 1
    /\ c.vpos <= Len(Cursor_vals(c))

Cursor_key(c) == c.data[c.kpos][1]

Cursor_val(c) == Cursor_vals(c)[c.vpos][1]

Cursor_weight(c) == Cursor_vals(c)[c.vpos][2]

\* step_key: to the next greater key and its first value; behind the last
\* key the cursor is invalid.
Cursor_step_key(c) ==
    IF Cursor_key_valid(c) THEN [c EXCEPT !.kpos = @ + 1, !.vpos = 1] ELSE c

\* step_key_reverse: to the next smaller key and its first value.
Cursor_step_key_reverse(c) ==
    IF Cursor_key_valid(c) THEN [c EXCEPT !.kpos = @ - 1, !.vpos = 1] ELSE c

\* seek_key(k): forward to the smallest key >= k at or after the current
\* position; the value position is reset.
Cursor_seek_key(c, k) ==
    LET at == {i \in Max(c.kpos, 1) .. Len(c.data) : c.data[i][1] >= k}
    IN  [c EXCEPT !.kpos = IF at = {} THEN Len(c.data) + 1
                           ELSE CHOOSE i \in at : \A j \in at : i <= j,
                  !.vpos = 1]

Cursor_step_val(c) ==
    IF Cursor_val_valid(c) THEN [c EXCEPT !.vpos = @ + 1] ELSE c

\* rewind_keys: back to the first key
Cursor_rewind_keys(c) == [c EXCEPT !.kpos = 1, !.vpos = 1]

\* fast_forward_keys: to the last key
Cursor_fast_forward_keys(c) == [c EXCEPT !.kpos = Len(c.data), !.vpos = 1]

\* step_val_reverse: to the next smaller value of the key
Cursor_step_val_reverse(c) ==
    IF Cursor_val_valid(c) THEN [c EXCEPT !.vpos = @ - 1] ELSE c

\* rewind_vals: back to the first value of the key
Cursor_rewind_vals(c) == [c EXCEPT !.vpos = 1]

\* fast_forward_vals: to the last value of the key
Cursor_fast_forward_vals(c) ==
    IF Cursor_key_valid(c) THEN [c EXCEPT !.vpos = Len(Cursor_vals(c))] ELSE c

\* seek_key_reverse(k): backwards to the largest key <= k at or before the
\* current position, before the first key if there is none; the value
\* position is reset.  A cursor that is on no key stays where it is.
Cursor_seek_key_reverse(c, k) ==
    IF ~ Cursor_key_valid(c) THEN c
    ELSE LET at == {i \in 1 .. c.kpos : c.data[i][1] <= k}
         IN  [c EXCEPT !.kpos = IF at = {} THEN 0
                                ELSE CHOOSE i \in at : \A j \in at : i >= j,
                       !.vpos = 1]

\* seek_val_with(predicate): forward to the first value of the key, at or
\* after the current one, that satisfies the predicate, behind the last
\* value if there is none.  A predicate is the set of the values that
\* satisfy it.  A cursor that is on no value stays where it is.
Cursor_seek_val_with(c, predicate) ==
    IF ~ Cursor_val_valid(c) THEN c
    ELSE LET at == {j \in c.vpos .. Len(Cursor_vals(c)) :
                       Cursor_vals(c)[j][1] \in predicate}
         IN  [c EXCEPT !.vpos = IF at = {} THEN Len(Cursor_vals(c)) + 1
                                ELSE CHOOSE i \in at : \A j \in at : i <= j]

\* seek_val_with_reverse(predicate): backwards to the last value of the
\* key, at or before the current one, that satisfies the predicate, before
\* the first value if there is none.
Cursor_seek_val_with_reverse(c, predicate) ==
    IF ~ Cursor_val_valid(c) THEN c
    ELSE LET at == {j \in 1 .. c.vpos : Cursor_vals(c)[j][1] \in predicate}
         IN  [c EXCEPT !.vpos = IF at = {} THEN 0
                                ELSE CHOOSE i \in at : \A j \in at : i >= j]

\* seek_val(v): forward to the smallest value >= v of the key.
Cursor_seek_val(c, v) == Cursor_seek_val_with(c, {x \in CursorVals : x >= v})

\* seek_val_reverse(v): backwards to the largest value <= v of the key.
Cursor_seek_val_reverse(c, v) ==
    Cursor_seek_val_with_reverse(c, {x \in CursorVals : x <= v})

(***************************************************************************)
(* CURSOR PAIR (trace/cursor/cursor_pair.rs).  The pair is a record of     *)
(* its fields; asserts_ok turns false when a debug_assert of the code      *)
(* fails.  Every method is an operator from the pair to the pair after     *)
(* the call.                                                               *)
(***************************************************************************)
\* CursorPair::new
CursorPair_new(cursor1, cursor2) ==
    [cursor1 |-> cursor1,
     cursor2 |-> cursor2,
     key_order |->
        IF ~ Cursor_key_valid(cursor1) THEN "Greater"
        ELSE IF ~ Cursor_key_valid(cursor2) THEN "Less"
        ELSE Cmp(Cursor_key(cursor1), Cursor_key(cursor2)),
     val_order |->
        IF ~ Cursor_val_valid(cursor1) THEN "Greater"
        ELSE IF ~ Cursor_val_valid(cursor2) THEN "Less"
        ELSE Cmp(Cursor_val(cursor1), Cursor_val(cursor2)),
     key_direction |-> "Forward",
     val_direction |-> "Forward",
     asserts_ok |-> TRUE]

current_key1(p) ==
    \/ p.key_direction = "Forward" /\ p.key_order = "Less"
    \/ p.key_direction = "Backward" /\ p.key_order = "Greater"

current_key2(p) ==
    \/ p.key_direction = "Forward" /\ p.key_order = "Greater"
    \/ p.key_direction = "Backward" /\ p.key_order = "Less"

current_key12(p) == p.key_order = "Equal"

current_val1(p) ==
    \/ current_key1(p)
    \/ /\ current_key12(p)
       /\ \/ p.val_direction = "Forward" /\ p.val_order = "Less"
          \/ p.val_direction = "Backward" /\ p.val_order = "Greater"

current_val2(p) ==
    \/ current_key2(p)
    \/ /\ current_key12(p)
       /\ \/ p.val_direction = "Forward" /\ p.val_order = "Greater"
          \/ p.val_direction = "Backward" /\ p.val_order = "Less"

current_val12(p) == current_key12(p) /\ p.val_order = "Equal"

\* debug_assert_eq!(left, right)
debug_assert_eq(p, left, right) ==
    [p EXCEPT !.asserts_ok = @ /\ (left = right)]

update_val_order_forward(p) ==
    [debug_assert_eq(p, p.val_direction, "Forward") EXCEPT
        !.val_order =
            IF ~ Cursor_val_valid(p.cursor1) THEN "Greater"
            ELSE IF ~ Cursor_val_valid(p.cursor2) THEN "Less"
            ELSE Cmp(Cursor_val(p.cursor1), Cursor_val(p.cursor2))]

update_key_order_forward(p) ==
    LET q == debug_assert_eq(p, p.key_direction, "Forward")
    IN  IF ~ Cursor_key_valid(q.cursor1) THEN [q EXCEPT !.key_order = "Greater"]
        ELSE IF ~ Cursor_key_valid(q.cursor2) THEN [q EXCEPT !.key_order = "Less"]
        ELSE LET res == Cmp(Cursor_key(q.cursor1), Cursor_key(q.cursor2))
             IN  IF res = "Equal"
                   THEN [update_val_order_forward(q) EXCEPT !.key_order = res]
                   ELSE [q EXCEPT !.key_order = res]

update_key_order_reverse(p) ==
    LET q == debug_assert_eq(p, p.key_direction, "Backward")
    IN  IF ~ Cursor_key_valid(q.cursor1) THEN [q EXCEPT !.key_order = "Less"]
        ELSE IF ~ Cursor_key_valid(q.cursor2) THEN [q EXCEPT !.key_order = "Greater"]
        ELSE LET res == Cmp(Cursor_key(q.cursor1), Cursor_key(q.cursor2))
             IN  IF res = "Equal"
                   THEN [update_val_order_forward(q) EXCEPT !.key_order = res]
                   ELSE [q EXCEPT !.key_order = res]

key_valid(p) ==
    IF current_key1(p) THEN Cursor_key_valid(p.cursor1)
    ELSE IF current_key2(p) THEN Cursor_key_valid(p.cursor2)
    ELSE TRUE

val_valid(p) ==
    IF current_val1(p) THEN Cursor_val_valid(p.cursor1)
    ELSE IF current_val2(p) THEN Cursor_val_valid(p.cursor2)
    ELSE TRUE

key(p) == IF current_key1(p) THEN Cursor_key(p.cursor1) ELSE Cursor_key(p.cursor2)

val(p) == IF current_val1(p) THEN Cursor_val(p.cursor1) ELSE Cursor_val(p.cursor2)

\* weight: map_times adds the weights that fold_times visits, those of
\* cursor1 and then those of cursor2.
weight(p) ==
    (IF current_val1(p) \/ current_val12(p) THEN Cursor_weight(p.cursor1) ELSE 0)
    + (IF current_val2(p) \/ current_val12(p) THEN Cursor_weight(p.cursor2) ELSE 0)

\* step_key that advances both cursors wherever they are
step_key_Both(p) ==
    LET q == debug_assert_eq(p, p.key_direction, "Forward")
        r == [q EXCEPT
                !.cursor1 = Cursor_step_key(@),
                !.cursor2 = Cursor_step_key(@)]
    IN  [update_key_order_forward(r) EXCEPT !.val_direction = "Forward"]

\* step_key that, on a key both cursors hold, advances cursor1 alone
step_key_OneSide(p) ==
    LET q == debug_assert_eq(p, p.key_direction, "Forward")
        r == [q EXCEPT
                !.cursor1 = IF q.key_order # "Greater"
                              THEN Cursor_step_key(@) ELSE @,
                !.cursor2 = IF q.key_order = "Greater"
                              THEN Cursor_step_key(@) ELSE @]
    IN  [update_key_order_forward(r) EXCEPT !.val_direction = "Forward"]

step_key(p) ==
    LET q == debug_assert_eq(p, p.key_direction, "Forward")
        r == [q EXCEPT
                !.cursor1 = IF q.key_order # "Greater"
                              THEN Cursor_step_key(@) ELSE @,
                !.cursor2 = IF q.key_order # "Less"
                              THEN Cursor_step_key(@) ELSE @]
    IN  [update_key_order_forward(r) EXCEPT !.val_direction = "Forward"]

\* As in the code, both branches call step_key on the underlying cursor.
step_key_reverse(p) ==
    LET q == debug_assert_eq(p, p.key_direction, "Backward")
        r == [q EXCEPT
                !.cursor1 = IF q.key_order # "Less"
                              THEN Cursor_step_key(@) ELSE @,
                !.cursor2 = IF q.key_order # "Greater"
                              THEN Cursor_step_key(@) ELSE @]
    IN  [update_key_order_reverse(r) EXCEPT !.val_direction = "Forward"]

\* seek_key that forgets to seek cursor2
seek_key_FirstOnly(p, k) ==
    LET q == debug_assert_eq(p, p.key_direction, "Forward")
        r == [q EXCEPT
                !.cursor1 = Cursor_seek_key(@, k),
                !.val_direction = "Forward"]
    IN  update_key_order_forward(r)

seek_key(p, k) ==
    LET q == debug_assert_eq(p, p.key_direction, "Forward")
        r == [q EXCEPT
                !.cursor1 = Cursor_seek_key(@, k),
                !.cursor2 = Cursor_seek_key(@, k),
                !.val_direction = "Forward"]
    IN  update_key_order_forward(r)

seek_key_reverse(p, k) ==
    LET q == debug_assert_eq(p, p.key_direction, "Backward")
        r == [q EXCEPT
                !.cursor1 = Cursor_seek_key_reverse(@, k),
                !.cursor2 = Cursor_seek_key_reverse(@, k),
                !.val_direction = "Forward"]
    IN  update_key_order_reverse(r)

\* step_val that, on a value both cursors hold, advances cursor1 alone
step_val_OneSide(p) ==
    LET q == debug_assert_eq(p, p.val_direction, "Forward")
    IN  IF current_key1(q) THEN [q EXCEPT !.cursor1 = Cursor_step_val(@)]
        ELSE IF current_key2(q) THEN [q EXCEPT !.cursor2 = Cursor_step_val(@)]
        ELSE update_val_order_forward(
                [q EXCEPT
                    !.cursor1 = IF q.val_order # "Greater"
                                  THEN Cursor_step_val(@) ELSE @,
                    !.cursor2 = IF q.val_order = "Greater"
                                  THEN Cursor_step_val(@) ELSE @])

step_val(p) ==
    LET q == debug_assert_eq(p, p.val_direction, "Forward")
    IN  IF current_key1(q) THEN [q EXCEPT !.cursor1 = Cursor_step_val(@)]
        ELSE IF current_key2(q) THEN [q EXCEPT !.cursor2 = Cursor_step_val(@)]
        ELSE update_val_order_forward(
                [q EXCEPT
                    !.cursor1 = IF q.val_order # "Greater"
                                  THEN Cursor_step_val(@) ELSE @,
                    !.cursor2 = IF q.val_order # "Less"
                                  THEN Cursor_step_val(@) ELSE @])

rewind_keys(p) ==
    update_key_order_forward(
        [p EXCEPT
            !.cursor1 = Cursor_rewind_keys(@),
            !.cursor2 = Cursor_rewind_keys(@),
            !.key_direction = "Forward",
            !.val_direction = "Forward"])

fast_forward_keys(p) ==
    update_key_order_reverse(
        [p EXCEPT
            !.cursor1 = Cursor_fast_forward_keys(@),
            !.cursor2 = Cursor_fast_forward_keys(@),
            !.key_direction = "Backward",
            !.val_direction = "Forward"])

update_val_order_reverse(p) ==
    [debug_assert_eq(p, p.val_direction, "Backward") EXCEPT
        !.val_order =
            IF ~ Cursor_val_valid(p.cursor1) THEN "Less"
            ELSE IF ~ Cursor_val_valid(p.cursor2) THEN "Greater"
            ELSE Cmp(Cursor_val(p.cursor1), Cursor_val(p.cursor2))]

step_val_reverse(p) ==
    LET q == debug_assert_eq(p, p.val_direction, "Backward")
    IN  IF current_key1(q) THEN [q EXCEPT !.cursor1 = Cursor_step_val_reverse(@)]
        ELSE IF current_key2(q) THEN [q EXCEPT !.cursor2 = Cursor_step_val_reverse(@)]
        ELSE update_val_order_reverse(
                [q EXCEPT
                    !.cursor1 = IF q.val_order # "Less"
                                  THEN Cursor_step_val_reverse(@) ELSE @,
                    !.cursor2 = IF q.val_order # "Greater"
                                  THEN Cursor_step_val_reverse(@) ELSE @])

seek_val(p, v) ==
    LET q == debug_assert_eq(p, p.val_direction, "Forward")
    IN  IF current_key1(q) THEN [q EXCEPT !.cursor1 = Cursor_seek_val(@, v)]
        ELSE IF current_key2(q) THEN [q EXCEPT !.cursor2 = Cursor_seek_val(@, v)]
        ELSE update_val_order_forward(
                [q EXCEPT
                    !.cursor1 = Cursor_seek_val(@, v),
                    !.cursor2 = Cursor_seek_val(@, v)])

seek_val_reverse(p, v) ==
    LET q == debug_assert_eq(p, p.val_direction, "Backward")
    IN  IF current_key1(q) THEN [q EXCEPT !.cursor1 = Cursor_seek_val_reverse(@, v)]
        ELSE IF current_key2(q) THEN [q EXCEPT !.cursor2 = Cursor_seek_val_reverse(@, v)]
        ELSE update_val_order_reverse(
                [q EXCEPT
                    !.cursor1 = Cursor_seek_val_reverse(@, v),
                    !.cursor2 = Cursor_seek_val_reverse(@, v)])

seek_val_with(p, predicate) ==
    LET q == debug_assert_eq(p, p.val_direction, "Forward")
    IN  IF current_key1(q)
          THEN [q EXCEPT !.cursor1 = Cursor_seek_val_with(@, predicate)]
        ELSE IF current_key2(q)
          THEN [q EXCEPT !.cursor2 = Cursor_seek_val_with(@, predicate)]
        ELSE update_val_order_forward(
                [q EXCEPT
                    !.cursor1 = Cursor_seek_val_with(@, predicate),
                    !.cursor2 = Cursor_seek_val_with(@, predicate)])

seek_val_with_reverse(p, predicate) ==
    LET q == debug_assert_eq(p, p.val_direction, "Backward")
    IN  IF current_key1(q)
          THEN [q EXCEPT !.cursor1 = Cursor_seek_val_with_reverse(@, predicate)]
        ELSE IF current_key2(q)
          THEN [q EXCEPT !.cursor2 = Cursor_seek_val_with_reverse(@, predicate)]
        ELSE update_val_order_reverse(
                [q EXCEPT
                    !.cursor1 = Cursor_seek_val_with_reverse(@, predicate),
                    !.cursor2 = Cursor_seek_val_with_reverse(@, predicate)])

rewind_vals(p) ==
    LET q == [p EXCEPT !.val_direction = "Forward"]
    IN  IF current_key1(q) THEN [q EXCEPT !.cursor1 = Cursor_rewind_vals(@)]
        ELSE IF current_key2(q) THEN [q EXCEPT !.cursor2 = Cursor_rewind_vals(@)]
        ELSE update_val_order_forward(
                [q EXCEPT
                    !.cursor1 = Cursor_rewind_vals(@),
                    !.cursor2 = Cursor_rewind_vals(@)])

fast_forward_vals(p) ==
    LET q == [p EXCEPT !.val_direction = "Backward"]
    IN  IF current_key1(q) THEN [q EXCEPT !.cursor1 = Cursor_fast_forward_vals(@)]
        ELSE IF current_key2(q) THEN [q EXCEPT !.cursor2 = Cursor_fast_forward_vals(@)]
        ELSE update_val_order_reverse(
                [q EXCEPT
                    !.cursor1 = Cursor_fast_forward_vals(@),
                    !.cursor2 = Cursor_fast_forward_vals(@)])

(***************************************************************************)
(* A client of the pair cursor: it creates a pair over two batches and     *)
(* calls the key and value methods in any order their direction allows,    *)
(* stepping only while the pair is valid.  cp_keys records the keys the    *)
(* pair presents while it is stepped from one end (a seek ends the         *)
(* record); cp_vals records the values presented under the current key.    *)
(***************************************************************************)
IdleCp ==
    /\ cp = CursorPair_new(Cursor_new(<<>>), Cursor_new(<<>>))
    /\ cp_origin = "none"
    /\ cp_sought = FALSE
    /\ cp_keys = <<>>
    /\ cp_vals = <<>>
    /\ cp_last = <<"none">>

\* What the pair presents at its position.
PresentedKey(p) == IF key_valid(p) THEN <<key(p)>> ELSE <<>>

PresentedVal(p) ==
    IF key_valid(p) /\ val_valid(p) THEN << <<val(p), weight(p)>> >> ELSE <<>>

InitCp ==
    /\ \E b1 \in Batches(WeightsOne), b2 \in Batches(WeightsTwo) :
          cp = CursorPair_new(Cursor_new(b1), Cursor_new(b2))
    /\ cp_origin = "new"
    /\ cp_sought = FALSE
    /\ cp_keys = PresentedKey(cp)
    /\ cp_vals = PresentedVal(cp)
    /\ cp_last = <<"new">>

\* A pair over two batches of two keys and of weight 1: neither the
\* weights nor a third key take part in the directions of the pair.
InitCpVals ==
    /\ \E b1 \in BatchesOver(1 .. 2, WeightsTwo), b2 \in BatchesOver(1 .. 2, WeightsTwo) :
          cp = CursorPair_new(Cursor_new(b1), Cursor_new(b2))
    /\ cp_origin = "new"
    /\ cp_sought = FALSE
    /\ cp_keys = PresentedKey(cp)
    /\ cp_vals = PresentedVal(cp)
    /\ cp_last = <<"new">>

PairStepKey ==
    /\ cp.key_direction = "Forward"
    /\ key_valid(cp)
    /\ cp' = step_key(cp)
    /\ cp_keys' = IF cp_sought THEN <<>> ELSE cp_keys \o PresentedKey(cp')
    /\ cp_vals' = PresentedVal(cp')
    /\ cp_last' = <<"step_key">>
    /\ UNCHANGED <<cp_origin, cp_sought>>
    /\ UNCHANGED othersCp

PairStepKeyReverse ==
    /\ cp.key_direction = "Backward"
    /\ key_valid(cp)
    /\ cp' = step_key_reverse(cp)
    /\ cp_keys' = IF cp_sought THEN <<>> ELSE cp_keys \o PresentedKey(cp')
    /\ cp_vals' = PresentedVal(cp')
    /\ cp_last' = <<"step_key_reverse">>
    /\ UNCHANGED <<cp_origin, cp_sought>>
    /\ UNCHANGED othersCp

PairSeekKey(k) ==
    /\ cp.key_direction = "Forward"
    /\ cp' = seek_key(cp, k)
    /\ cp_sought' = TRUE
    /\ cp_keys' = <<>>
    /\ cp_vals' = PresentedVal(cp')
    /\ cp_last' = <<"seek_key">>
    /\ UNCHANGED cp_origin
    /\ UNCHANGED othersCp

PairSeekKeyReverse(k) ==
    /\ cp.key_direction = "Backward"
    /\ cp' = seek_key_reverse(cp, k)
    /\ cp_sought' = TRUE
    /\ cp_keys' = <<>>
    /\ cp_vals' = PresentedVal(cp')
    /\ cp_last' = <<"seek_key_reverse">>
    /\ UNCHANGED cp_origin
    /\ UNCHANGED othersCp

PairStepVal ==
    /\ cp.val_direction = "Forward"
    /\ key_valid(cp)
    /\ val_valid(cp)
    /\ cp' = step_val(cp)
    /\ cp_vals' = cp_vals \o PresentedVal(cp')
    /\ cp_last' = <<"step_val">>
    /\ UNCHANGED <<cp_origin, cp_sought, cp_keys>>
    /\ UNCHANGED othersCp

PairRewindKeys ==
    /\ cp' = rewind_keys(cp)
    /\ cp_origin' = "rewind"
    /\ cp_sought' = FALSE
    /\ cp_keys' = PresentedKey(cp')
    /\ cp_vals' = PresentedVal(cp')
    /\ cp_last' = <<"rewind_keys">>
    /\ UNCHANGED othersCp

PairFastForwardKeys ==
    /\ cp' = fast_forward_keys(cp)
    /\ cp_origin' = "fast_forward"
    /\ cp_sought' = FALSE
    /\ cp_keys' = PresentedKey(cp')
    /\ cp_vals' = PresentedVal(cp')
    /\ cp_last' = <<"fast_forward_keys">>
    /\ UNCHANGED othersCp

\* The value methods that walk the values of the key from the last one.
PairFastForwardVals ==
    /\ key_valid(cp)
    /\ cp' = fast_forward_vals(cp)
    /\ cp_vals' = PresentedVal(cp')
    /\ cp_last' = <<"fast_forward_vals">>
    /\ UNCHANGED <<cp_origin, cp_sought, cp_keys>>
    /\ UNCHANGED othersCp

PairStepValReverse ==
    /\ cp.val_direction = "Backward"
    /\ key_valid(cp)
    /\ val_valid(cp)
    /\ cp' = step_val_reverse(cp)
    /\ cp_vals' = cp_vals \o PresentedVal(cp')
    /\ cp_last' = <<"step_val_reverse">>
    /\ UNCHANGED <<cp_origin, cp_sought, cp_keys>>
    /\ UNCHANGED othersCp

PairRewindVals ==
    /\ key_valid(cp)
    /\ cp' = rewind_vals(cp)
    /\ cp_vals' = PresentedVal(cp')
    /\ cp_last' = <<"rewind_vals">>
    /\ UNCHANGED <<cp_origin, cp_sought, cp_keys>>
    /\ UNCHANGED othersCp

\* The value methods that seek: the record of the values starts again at
\* the value the pair is on afterwards.
PairSeekVal(v) ==
    /\ cp.val_direction = "Forward"
    /\ cp' = seek_val(cp, v)
    /\ cp_vals' = PresentedVal(cp')
    /\ cp_last' = <<"seek_val">>
    /\ UNCHANGED <<cp_origin, cp_sought, cp_keys>>
    /\ UNCHANGED othersCp

PairSeekValReverse(v) ==
    /\ cp.val_direction = "Backward"
    /\ cp' = seek_val_reverse(cp, v)
    /\ cp_vals' = PresentedVal(cp')
    /\ cp_last' = <<"seek_val_reverse">>
    /\ UNCHANGED <<cp_origin, cp_sought, cp_keys>>
    /\ UNCHANGED othersCp

PairSeekValWith(predicate) ==
    /\ cp.val_direction = "Forward"
    /\ cp' = seek_val_with(cp, predicate)
    /\ cp_vals' = PresentedVal(cp')
    /\ cp_last' = <<"seek_val_with">>
    /\ UNCHANGED <<cp_origin, cp_sought, cp_keys>>
    /\ UNCHANGED othersCp

PairSeekValWithReverse(predicate) ==
    /\ cp.val_direction = "Backward"
    /\ cp' = seek_val_with_reverse(cp, predicate)
    /\ cp_vals' = PresentedVal(cp')
    /\ cp_last' = <<"seek_val_with_reverse">>
    /\ UNCHANGED <<cp_origin, cp_sought, cp_keys>>
    /\ UNCHANGED othersCp

(***************************************************************************)
(* Aggregation operators.  An indexed Z-set is a function from             *)
(* <<key, value>> pairs to weights, zero for the pairs it lacks; its       *)
(* cursor walks the batch of the pairs of non-zero weight.  The Z-set an   *)
(* aggregate produces is a function from the records of non-zero weight    *)
(* to their weights.                                                       *)
(***************************************************************************)
AggKeys == 1 .. 2
AggVals == 1 .. 2

\* The zero of indexed Z-sets, and their GroupValue addition.
batch_zero == [e \in AggKeys \X AggVals |-> 0]

batch_plus(a, b) == [e \in AggKeys \X AggVals |-> a[e] + b[e]]

\* The values of non-zero weight under key k, ascending, with weights.
batch_vals(b, k) ==
    LET vs == SortedSeq({v \in AggVals : b[<<k, v>>] # 0})
    IN  [j \in 1 .. Len(vs) |-> <<vs[j], b[<<k, vs[j]>>]>>]

\* i.cursor(): a cursor over the keys that have such values, ascending.
batch_cursor(b) ==
    LET ks == SortedSeq({k \in AggKeys :
                            \E v \in AggVals : b[<<k, v>>] # 0})
    IN  Cursor_new([i \in 1 .. Len(ks) |-> <<ks[i], batch_vals(b, ks[i])>>])

\* The zero of Z-sets of records, and their addition and negation.
zset_zero == [o \in {} |-> 0]

zset_weight(z, o) == IF o \in DOMAIN z THEN z[o] ELSE 0

zset_plus(a, b) ==
    LET sum(o) == zset_weight(a, o) + zset_weight(b, o)
        D == {o \in DOMAIN a \cup DOMAIN b : sum(o) # 0}
    IN  [o \in D |-> sum(o)]

zset_neg(a) == [o \in DOMAIN a |-> 0 - a[o]]

\* O::from_tuples((), elements): the Z-set of a vector of <<record, weight>>
\* pairs, consolidated.
RECURSIVE tuples_weight(_, _)
tuples_weight(elements, o) ==
    IF elements = <<>> THEN 0
    ELSE (IF Head(elements)[1] = o THEN Head(elements)[2] ELSE 0)
         + tuples_weight(Tail(elements), o)

from_tuples(elements) ==
    LET D == {o \in {elements[i][1] : i \in 1 .. Len(elements)} :
                 tuples_weight(elements, o) # 0}
    IN  [o \in D |-> tuples_weight(elements, o)]

\* The aggregation functions.  Each one is handed a cursor positioned on a
\* key and walks the values under that key.
AggFuncs == {"sum", "min", "count"}

\* The limbs of a usize: four digits in base 2^16, most significant first.
\* usize::MAX of the 64-bit build is 2^64 - 1, beyond the 32-bit integers
\* of TLC, so that the running minimum of `min` is kept in limbs.
usize_MAX == <<65535, 65535, 65535, 65535>>

\* The limbs of a usize below 2^31.
usize_limbs(n) == <<0, 0, n \div 65536, n % 65536>>

\* a < b on limbs.
usize_lt(a, b) ==
    \E i \in 1 .. 4 : a[i] < b[i] /\ \A j \in 1 .. (i - 1) : a[j] = b[j]

\* A usize as the integer it is where that is below 2^31, else its limbs.
usize_value(l) ==
    IF l[1] = 0 /\ l[2] = 0 /\ l[3] < 32768
    THEN l[3] * 65536 + l[4]
    ELSE l

\* `sum` of aggregate_test: the weighted sum of the values, with the key.
RECURSIVE sum_loop(_, _)
sum_loop(cursor, result) ==
    IF Cursor_val_valid(cursor)
    THEN sum_loop(Cursor_step_val(cursor),
                  result + Cursor_val(cursor) * Cursor_weight(cursor))
    ELSE <<Cursor_key(cursor), result>>

\* `min` of aggregate_test: the closure compares cursor.key(storage), not
\* the value, against the running minimum, which starts at usize::MAX and
\* is returned as it is when the cursor has no valid value.
RECURSIVE min_loop(_, _)
min_loop(cursor, result) ==
    IF Cursor_val_valid(cursor)
    THEN min_loop(Cursor_step_val(cursor),
                  IF usize_lt(usize_limbs(Cursor_key(cursor)), result)
                  THEN usize_limbs(Cursor_key(cursor))
                  ELSE result)
    ELSE <<Cursor_key(cursor), usize_value(result)>>

\* An aggregate that does not return the key: the number of values under
\* it.  Two keys can yield the same record.
RECURSIVE count_loop(_, _)
count_loop(cursor, result) ==
    IF Cursor_val_valid(cursor)
    THEN count_loop(Cursor_step_val(cursor), result + 1)
    ELSE result

agg_func(f, cursor) ==
    CASE f = "sum" -> sum_loop(cursor, 0)
      [] f = "min" -> min_loop(cursor, usize_MAX)
      [] f = "count" -> count_loop(cursor, 0)

\* Aggregate::eval: one record of weight +1 per key of the input.
RECURSIVE Aggregate_loop(_, _, _)
Aggregate_loop(f, cursor, elements) ==
    IF Cursor_key_valid(cursor)
    THEN Aggregate_loop(f, Cursor_step_key(cursor),
                        Append(elements, <<agg_func(f, cursor), 1>>))
    ELSE elements

\* An eval that pushes weight +2.
Aggregate_eval_Double(f, i) ==
    from_tuples(Aggregate_loop(f, batch_cursor(i), <<>>)
                \o Aggregate_loop(f, batch_cursor(i), <<>>))

Aggregate_eval(f, i) == from_tuples(Aggregate_loop(f, batch_cursor(i), <<>>))

\* AggregateIncremental::eval: for each key of the delta that the integral
\* holds, the aggregate of the integral under that key, with weight +1
\* (polarity) or -1.
RECURSIVE AggregateIncremental_loop(_, _, _, _, _)
AggregateIncremental_loop(f, w, delta_cursor, integral_cursor, result) ==
    IF Cursor_key_valid(delta_cursor)
    THEN LET k == Cursor_key(delta_cursor)
             ic == Cursor_seek_key(integral_cursor, k)
         IN  AggregateIncremental_loop(
                 f, w, Cursor_step_key(delta_cursor), ic,
                 IF Cursor_key_valid(ic) /\ Cursor_key(ic) = k
                 THEN Append(result, <<agg_func(f, ic), w>>)
                 ELSE result)
    ELSE result

\* The operator with the polarity ignored: it never retracts.
AggregateIncremental_eval_Insert(polarity, f, delta, integral) ==
    from_tuples(AggregateIncremental_loop(
                    f, 1, batch_cursor(delta), batch_cursor(integral), <<>>))

AggregateIncremental_eval(polarity, f, delta, integral) ==
    from_tuples(AggregateIncremental_loop(
                    f, IF polarity THEN 1 ELSE 0 - 1,
                    batch_cursor(delta), batch_cursor(integral), <<>>))

(***************************************************************************)
(* Stream operators with a register.  Each one maps its register and this  *)
(* tick's input to this tick's output and the register's next value.       *)
(***************************************************************************)
\* integrate(): the running sum of the inputs of this clock.
integrate(reg, i) ==
    LET s == batch_plus(reg, i) IN [out |-> s, reg |-> s]

\* delay(): the input of the previous tick, zero at the first.
delay(reg, i) == [out |-> reg, reg |-> i]

\* differentiate(): the input minus the input of the previous tick.
differentiate(reg, i) == [out |-> zset_plus(i, zset_neg(reg)), reg |-> i]

\* The register of a nested operator keeps one value per tick of the inner
\* clock, across the epochs of the outer clock.
nested_get(reg, t, zero) == IF t <= Len(reg) THEN reg[t] ELSE zero

nested_set(reg, t, x) ==
    IF t <= Len(reg) THEN [reg EXCEPT ![t] = x] ELSE Append(reg, x)

\* integrate_nested(): at inner tick t, the sum over the epochs so far of
\* the inputs at inner tick t.
integrate_nested(reg, t, i) ==
    LET s == batch_plus(nested_get(reg, t, batch_zero), i)
    IN  [out |-> s, reg |-> nested_set(reg, t, s)]

\* differentiate_nested(): at inner tick t, the input minus the input at
\* inner tick t of the previous epoch.
differentiate_nested(reg, t, i) ==
    [out |-> zset_plus(i, zset_neg(nested_get(reg, t, zset_zero))),
     reg |-> nested_set(reg, t, i)]

\* What one AggregateIncremental operator was handed and what it returned.
operator_eval(polarity, f, delta, integral) ==
    [polarity |-> polarity, delta |-> delta, integral |-> integral,
     out |-> AggregateIncremental_eval(polarity, f, delta, integral)]

\* The circuit with retract_old wired to the integral itself.
aggregate_incremental_NoDelay(st, f, self) ==
    LET integral == integrate(st.integrate, self)
        delayed == delay(st.delay, integral.out)
        retract_old == operator_eval(FALSE, f, self, integral.out)
        insert_new == operator_eval(TRUE, f, self, integral.out)
    IN  [out |-> zset_plus(retract_old.out, insert_new.out),
         ops |-> <<retract_old, insert_new>>,
         st |-> [st EXCEPT !.integrate = integral.reg,
                           !.delay = delayed.reg]]

\* Stream::aggregate_incremental: retract_old over the delayed integral
\* plus insert_new over the integral.
aggregate_incremental(st, f, self) ==
    LET integral == integrate(st.integrate, self)
        delayed == delay(st.delay, integral.out)
        retract_old == operator_eval(FALSE, f, self, delayed.out)
        insert_new == operator_eval(TRUE, f, self, integral.out)
    IN  [out |-> zset_plus(retract_old.out, insert_new.out),
         ops |-> <<retract_old, insert_new>>,
         st |-> [st EXCEPT !.integrate = integral.reg,
                           !.delay = delayed.reg]]

\* Stream::aggregate_incremental_nested
aggregate_incremental_nested(st, t, f, self) ==
    LET n == integrate_nested(st.integrate_nested, t, self)
        a == aggregate_incremental(st, f, n.out)
        d == differentiate_nested(st.differentiate_nested, t, a.out)
    IN  [out |-> d.out,
         ops |-> a.ops,
         st |-> [a.st EXCEPT !.integrate_nested = n.reg,
                             !.differentiate_nested = d.reg]]

\* self.integrate().aggregate(f).differentiate()
integrate_aggregate_differentiate(st, f, self) ==
    LET integral == integrate(st.integrate, self)
        a == Aggregate_eval(f, integral.out)
        d == differentiate(st.differentiate, a)
    IN  [out |-> d.out,
         st |-> [st EXCEPT !.integrate = integral.reg,
                           !.differentiate = d.reg]]

\* self.integrate_nested().integrate().aggregate(f).differentiate()
\*     .differentiate_nested()
nested_integrate_aggregate_differentiate(st, t, f, self) ==
    LET n == integrate_nested(st.integrate_nested, t, self)
        a == integrate_aggregate_differentiate(st, f, n.out)
        d == differentiate_nested(st.differentiate_nested, t, a.out)
    IN  [out |-> d.out,
         st |-> [a.st EXCEPT !.integrate_nested = n.reg,
                             !.differentiate_nested = d.reg]]

\* clock_start of the inner clock: the registers of the non-nested
\* operators start from zero, those of the nested operators are kept.
clock_start(st) ==
    [r \in DOMAIN st |->
        CASE r \in {"integrate_nested", "differentiate_nested"} -> st[r]
          [] r \in {"integrate", "delay"} -> batch_zero
          [] r = "differentiate" -> zset_zero]

(***************************************************************************)
(* The circuits of aggregate_test: the incremental aggregate next to its   *)
(* non-incremental reference, fed the same deltas, either in the root      *)
(* circuit (one clock) or in a child circuit that runs IterationsPerEpoch  *)
(* inner ticks in each of MaxEpochs epochs.                                *)
(***************************************************************************)
\* The indexed Z-set of a set of <<key, value, weight>> triples.
indexed(T) ==
    [e \in AggKeys \X AggVals |->
        IF \E x \in T : <<x[1], x[2]>> = e
        THEN (CHOOSE x \in T : <<x[1], x[2]>> = e)[3]
        ELSE 0]

\* The deltas of aggregate_test, scaled to two keys and two values; the
\* generator yields the empty Z-set once its inputs are used up.
NestedDeltas ==
    { indexed({}),
      indexed({<<1, 1, 1>>, <<1, 2, 1>>}),
      indexed({<<2, 1, 1>>, <<1, 1, 0 - 1>>, <<1, 2, 1>>}) }

\* Those, one that moves a key from one value to another, and every delta
\* that inserts or deletes one pair.
AggDeltas ==
    NestedDeltas \cup
    {indexed({<<2, 2, 1>>, <<2, 1, 0 - 1>>})} \cup
    {indexed({<<e[1], e[2], w>>}) :
         e \in AggKeys \X AggVals, w \in {0 - 1, 1}}

IncZero ==
    [integrate_nested |-> <<>>, integrate |-> batch_zero,
     delay |-> batch_zero, differentiate_nested |-> <<>>]

RefZero ==
    [integrate_nested |-> <<>>, integrate |-> batch_zero,
     differentiate |-> zset_zero, differentiate_nested |-> <<>>]

IdleAgg ==
    /\ agg_mode = "idle"
    /\ agg_f = "sum"
    /\ agg_epoch = 0
    /\ agg_tick = 0
    /\ agg_delta = batch_zero
    /\ inc_state = IncZero
    /\ ref_state = RefZero
    /\ out_inc = zset_zero
    /\ inc_ops = <<>>
    /\ out_ref = zset_zero

InitAgg ==
    /\ agg_mode \in {"root", "nested"}
    /\ agg_f \in AggFuncs
    /\ agg_epoch = 1
    /\ agg_tick = 0
    /\ agg_delta = batch_zero
    /\ inc_state = IncZero
    /\ ref_state = RefZero
    /\ out_inc = zset_zero
    /\ inc_ops = <<>>
    /\ out_ref = zset_zero

\* One step() of the root circuit with input delta.
RootStep(delta) ==
    /\ agg_mode = "root"
    /\ agg_tick < MaxTicks
    /\ \E inc \in {aggregate_incremental(inc_state, agg_f, delta)},
          ref \in {integrate_aggregate_differentiate(
                       ref_state, agg_f, delta)} :
           /\ inc_state' = inc.st
           /\ ref_state' = ref.st
           /\ out_inc' = inc.out
           /\ inc_ops' = inc.ops
           /\ out_ref' = ref.out
    /\ agg_tick' = agg_tick + 1
    /\ agg_delta' = delta
    /\ UNCHANGED <<agg_mode, agg_f, agg_epoch>>
    /\ UNCHANGED othersAgg

\* One tick of the inner clock of the child circuit with input delta.
NestedStep(delta) ==
    /\ agg_mode = "nested"
    /\ agg_tick < IterationsPerEpoch
    /\ \E inc \in {aggregate_incremental_nested(
                       inc_state, agg_tick + 1, agg_f, delta)},
          ref \in {nested_integrate_aggregate_differentiate(
                       ref_state, agg_tick + 1, agg_f, delta)} :
           /\ inc_state' = inc.st
           /\ ref_state' = ref.st
           /\ out_inc' = inc.out
           /\ inc_ops' = inc.ops
           /\ out_ref' = ref.out
    /\ agg_tick' = agg_tick + 1
    /\ agg_delta' = delta
    /\ UNCHANGED <<agg_mode, agg_f, agg_epoch>>
    /\ UNCHANGED othersAgg

\* The child's termination closure returns true after IterationsPerEpoch
\* ticks; the next step() of the root starts the inner clock anew.
NestedEpoch ==
    /\ agg_mode = "nested"
    /\ agg_tick = IterationsPerEpoch
    /\ agg_epoch < MaxEpochs
    /\ agg_epoch' = agg_epoch + 1
    /\ agg_tick' = 0
    /\ inc_state' = clock_start(inc_state)
    /\ ref_state' = clock_start(ref_state)
    /\ UNCHANGED <<agg_mode, agg_f, agg_delta, out_inc, inc_ops, out_ref>>
    /\ UNCHANGED othersAgg

(***************************************************************************)
(* GROUP TRANSFORM (operator/group/mod.rs).  The input and the output are  *)
(* indexed Z-sets over GtKeys and GtVals; a trace is the indexed Z-set of  *)
(* the batches integrated so far.                                          *)
(***************************************************************************)
GtKeys == 1 .. 2
GtVals == 1 .. 3

gt_zero == [e \in GtKeys \X GtVals |-> 0]

\* The value `()` that a group cursor presents under each of its keys.
Unit == 0

\* CursorGroup::new(base, ()): the values under the key of `base`, as keys.
CursorGroup_new(base) ==
    Cursor_new([j \in 1 .. Len(Cursor_vals(base)) |->
                   <<Cursor_vals(base)[j][1],
                     << <<Unit, Cursor_vals(base)[j][2]>> >> >>])

\* CursorEmpty::new()
CursorEmpty_new == Cursor_new(<<>>)

\* The non-incremental transformers: a name and the parameter k.
\*   topk_asc      the k smallest values, walking the cursor forward
\*   topk_desc     the k largest values, walking the cursor in reverse
\*   lastk_desc    the k largest values, largest first, found by walking
\*                 the cursor forward
\*   reversed      every value, largest first, declared Unordered
Transformers ==
    [name : {"topk_asc", "topk_desc", "lastk_desc"}, k : 1 .. 2]
    \cup {[name |-> "reversed", k |-> Cardinality(GtVals)]}

monotonicity(t) ==
    CASE t.name = "topk_asc" -> "Ascending"
      [] t.name \in {"topk_desc", "lastk_desc"} -> "Descending"
      [] t.name = "reversed" -> "Unordered"

\* Walk the cursor forward, emitting the first k values of non-zero weight.
RECURSIVE forward_loop(_, _, _, _)
forward_loop(c, k, count, out) ==
    IF key_valid(c) /\ count < k
    THEN IF weight(c) # 0
         THEN forward_loop(step_key(c), k, count + 1,
                           Append(out, <<key(c), 1>>))
         ELSE forward_loop(step_key(c), k, count, out)
    ELSE out

\* Walk the cursor in reverse, emitting the first k values of non-zero
\* weight.
RECURSIVE reverse_loop(_, _, _, _)
reverse_loop(c, k, count, out) ==
    IF key_valid(c) /\ count < k
    THEN IF weight(c) # 0
         THEN reverse_loop(step_key_reverse(c), k, count + 1,
                           Append(out, <<key(c), 1>>))
         ELSE reverse_loop(step_key_reverse(c), k, count, out)
    ELSE out

\* The last k elements of s, last first.
last_first(s, k) ==
    [i \in 1 .. Min(k, Len(s)) |-> s[Len(s) + 1 - i]]

\* NonIncrementalGroupTransformer::transform: the calls of output_cb, in
\* order, as <<value, weight>> pairs.
transformer_transform(t, c) ==
    CASE t.name = "topk_asc" -> forward_loop(c, t.k, 0, <<>>)
      [] t.name = "topk_desc" ->
            reverse_loop(fast_forward_keys(c), t.k, 0, <<>>)
      [] t.name \in {"lastk_desc", "reversed"} ->
            last_first(forward_loop(c, Cardinality(GtVals), 0, <<>>), t.k)

\* The same loop with the test output_trace.key() < &v.
RECURSIVE retract_le_Strict(_, _, _)
retract_le_Strict(ot, v, out) ==
    IF Cursor_key_valid(ot) /\ Cursor_key(ot) < v
    THEN retract_le_Strict(Cursor_step_key(ot), v,
                    Append(out, <<Cursor_key(ot), 0 - Cursor_weight(ot)>>))
    ELSE [cursor |-> ot, out |-> out]

\* while output_trace.key_valid() && output_trace.key() <= &v: retract
RECURSIVE retract_le(_, _, _)
retract_le(ot, v, out) ==
    IF Cursor_key_valid(ot) /\ Cursor_key(ot) <= v
    THEN retract_le(Cursor_step_key(ot), v,
                    Append(out, <<Cursor_key(ot), 0 - Cursor_weight(ot)>>))
    ELSE [cursor |-> ot, out |-> out]

\* while output_trace.key_valid() && output_trace.key() >= &v: retract
RECURSIVE retract_ge(_, _, _)
retract_ge(ot, v, out) ==
    IF Cursor_key_valid(ot) /\ Cursor_key(ot) >= v
    THEN retract_ge(Cursor_step_key_reverse(ot), v,
                    Append(out, <<Cursor_key(ot), 0 - Cursor_weight(ot)>>))
    ELSE [cursor |-> ot, out |-> out]

\* while output_trace.key_valid(): retract, stepping forward
RECURSIVE retract_rest(_, _)
retract_rest(ot, out) ==
    IF Cursor_key_valid(ot)
    THEN retract_rest(Cursor_step_key(ot),
                      Append(out, <<Cursor_key(ot), 0 - Cursor_weight(ot)>>))
    ELSE out

\* while output_trace.key_valid(): retract, stepping in reverse
RECURSIVE retract_rest_reverse(_, _)
retract_rest_reverse(ot, out) ==
    IF Cursor_key_valid(ot)
    THEN retract_rest_reverse(
             Cursor_step_key_reverse(ot),
             Append(out, <<Cursor_key(ot), 0 - Cursor_weight(ot)>>))
    ELSE out

\* The Ascending closure applied to each emission of the transformer.
RECURSIVE ascending_cb(_, _, _)
ascending_cb(emitted, ot, out) ==
    IF emitted = <<>> THEN retract_rest(ot, out)
    ELSE LET r == retract_le(ot, Head(emitted)[1], out)
         IN  ascending_cb(Tail(emitted), r.cursor,
                          Append(r.out, Head(emitted)))

\* The Descending closure applied to each emission of the transformer.
RECURSIVE descending_cb(_, _, _)
descending_cb(emitted, ot, out) ==
    IF emitted = <<>> THEN retract_rest_reverse(ot, out)
    ELSE LET r == retract_ge(ot, Head(emitted)[1], out)
         IN  descending_cb(Tail(emitted), r.cursor,
                           Append(r.out, Head(emitted)))

\* DiffGroupTransformer::transform: the calls of output_cb, in order.
DiffGroupTransformer_transform(t, input_delta, input_trace, output_trace) ==
    LET emitted ==
            transformer_transform(t, CursorPair_new(input_delta, input_trace))
    IN  CASE monotonicity(t) = "Ascending" ->
                ascending_cb(emitted, output_trace, <<>>)
          [] monotonicity(t) = "Descending" ->
                descending_cb(emitted,
                              Cursor_fast_forward_keys(output_trace), <<>>)
          [] monotonicity(t) = "Unordered" ->
                retract_rest(output_trace, emitted)

\* Vec::sort of <<value, weight>> pairs.
tuple_le(a, b) == a[1] < b[1] \/ (a[1] = b[1] /\ a[2] <= b[2])

RECURSIVE sort_tuples(_)
sort_tuples(s) ==
    IF s = <<>> THEN <<>>
    ELSE LET m == CHOOSE i \in 1 .. Len(s) :
                     \A j \in 1 .. Len(s) :
                        tuple_le(s[i], s[j]) /\ (tuple_le(s[j], s[i]) => i <= j)
         IN  <<s[m]>> \o sort_tuples([j \in 1 .. Len(s) - 1 |->
                                         IF j < m THEN s[j] ELSE s[j + 1]])

\* The buffer handed to the builder as it is, whatever the monotonicity.
builder_order_Unsorted(t, cbs) == cbs

\* The callbacks pushed last first, whatever the monotonicity.
builder_order_Reversed(t, cbs) == [i \in 1 .. Len(cbs) |-> cbs[Len(cbs) + 1 - i]]

\* The order in which the callbacks of one key reach the builder.
builder_order(t, cbs) ==
    CASE monotonicity(t) = "Ascending" -> cbs
      [] monotonicity(t) = "Descending" ->
            [i \in 1 .. Len(cbs) |-> cbs[Len(cbs) + 1 - i]]
      [] monotonicity(t) = "Unordered" -> sort_tuples(cbs)

\* The same loop without the tests input_trace_cursor.key() == &key and
\* output_trace_cursor.key() == &key.
RECURSIVE GroupTransform_loop_NoKeyTest(_, _, _, _, _, _)
GroupTransform_loop_NoKeyTest(t, delta_cursor, input_trace_cursor, output_trace_cursor, builder, calls) ==
    IF Cursor_key_valid(delta_cursor)
    THEN LET k == Cursor_key(delta_cursor)
             itc == Cursor_seek_key(input_trace_cursor, k)
             otc == Cursor_seek_key(output_trace_cursor, k)
             input_group ==
                 IF Cursor_key_valid(itc)
                 THEN CursorGroup_new(itc) ELSE CursorEmpty_new
             output_group ==
                 IF Cursor_key_valid(otc)
                 THEN CursorGroup_new(otc) ELSE CursorEmpty_new
             cbs == DiffGroupTransformer_transform(
                        t, CursorGroup_new(delta_cursor), input_group,
                        output_group)
             emitted ==
                 transformer_transform(
                     t, CursorPair_new(CursorGroup_new(delta_cursor),
                                       input_group))
             pushed == builder_order(t, cbs)
         IN  GroupTransform_loop_NoKeyTest(
                 t, Cursor_step_key(delta_cursor), itc, otc,
                 builder \o [i \in 1 .. Len(pushed) |->
                                <<k, pushed[i][1], pushed[i][2]>>],
                 Append(calls, <<k, input_group.data, output_group.data,
                                 emitted, cbs>>))
    ELSE [pushed |-> builder, calls |-> calls]

\* GroupTransform::eval: the <<key, value, weight>> tuples pushed to the
\* builder, and for each invocation of the transformer the key, the
\* input-trace and output-trace groups handed to it, the calls the wrapped
\* transformer made to its callback and the calls of output_cb.
RECURSIVE GroupTransform_loop(_, _, _, _, _, _)
GroupTransform_loop(t, delta_cursor, input_trace_cursor, output_trace_cursor, builder, calls) ==
    IF Cursor_key_valid(delta_cursor)
    THEN LET k == Cursor_key(delta_cursor)
             itc == Cursor_seek_key(input_trace_cursor, k)
             otc == Cursor_seek_key(output_trace_cursor, k)
             input_group ==
                 IF Cursor_key_valid(itc) /\ Cursor_key(itc) = k
                 THEN CursorGroup_new(itc) ELSE CursorEmpty_new
             output_group ==
                 IF Cursor_key_valid(otc) /\ Cursor_key(otc) = k
                 THEN CursorGroup_new(otc) ELSE CursorEmpty_new
             cbs == DiffGroupTransformer_transform(
                        t, CursorGroup_new(delta_cursor), input_group,
                        output_group)
             emitted ==
                 transformer_transform(
                     t, CursorPair_new(CursorGroup_new(delta_cursor),
                                       input_group))
             pushed == builder_order(t, cbs)
         IN  GroupTransform_loop(
                 t, Cursor_step_key(delta_cursor), itc, otc,
                 builder \o [i \in 1 .. Len(pushed) |->
                                <<k, pushed[i][1], pushed[i][2]>>],
                 Append(calls, <<k, input_group.data, output_group.data,
                                 emitted, cbs>>))
    ELSE [pushed |-> builder, calls |-> calls]

\* i.cursor() of an indexed Z-set or of a trace over GtKeys and GtVals.
gt_cursor(b) ==
    LET ks == SortedSeq({k \in GtKeys : \E v \in GtVals : b[<<k, v>>] # 0})
        vals(k) == SortedSeq({v \in GtVals : b[<<k, v>>] # 0})
    IN  Cursor_new([i \in 1 .. Len(ks) |->
                      <<ks[i], [j \in 1 .. Len(vals(ks[i])) |->
                                   <<vals(ks[i])[j],
                                     b[<<ks[i], vals(ks[i])[j]>>]>>]>>])

GroupTransform_eval(t, delta, input_trace, output_trace) ==
    GroupTransform_loop(t, gt_cursor(delta), gt_cursor(input_trace),
                        gt_cursor(output_trace), <<>>, <<>>)

\* builder.done(), integrated into a trace: the weights of the pushed
\* tuples added per <<key, value>>.
RECURSIVE pushed_weight(_, _)
pushed_weight(pushed, e) ==
    IF pushed = <<>> THEN 0
    ELSE (IF <<Head(pushed)[1], Head(pushed)[2]>> = e
          THEN Head(pushed)[3] ELSE 0)
         + pushed_weight(Tail(pushed), e)

builder_done(pushed) == [e \in GtKeys \X GtVals |-> pushed_weight(pushed, e)]

gt_plus(a, b) == [e \in GtKeys \X GtVals |-> a[e] + b[e]]

(***************************************************************************)
(* The circuit of group_transform_generic: the operator reads the delta,   *)
(* the delayed integral of the input and the delayed integral of its own   *)
(* output (the feedback).                                                  *)
(***************************************************************************)
\* The indexed Z-set of a set of <<key, value, weight>> triples.
gt_indexed(T) ==
    [e \in GtKeys \X GtVals |->
        IF \E x \in T : <<x[1], x[2]>> = e
        THEN (CHOOSE x \in T : <<x[1], x[2]>> = e)[3]
        ELSE 0]

\* The deltas: nothing, one pair inserted or deleted (any value under key
\* 1, value 1 under key 2), two values under one key, one value under each
\* key, one value replaced by another.
GtDeltas ==
    {gt_indexed({<<e[1], e[2], w>>}) :
        e \in ({1} \X GtVals) \cup {<<2, 1>>}, w \in {0 - 1, 1}}
    \cup {gt_indexed({}),
          gt_indexed({<<1, 1, 1>>, <<1, 2, 1>>}),
          gt_indexed({<<1, 2, 1>>, <<2, 1, 1>>}),
          gt_indexed({<<1, 1, 0 - 1>>, <<1, 3, 1>>})}

IdleGt ==
    /\ gt_t = [name |-> "none", k |-> 0]
    /\ gt_tick = 0
    /\ gt_delta = gt_zero
    /\ gt_input_trace = gt_zero
    /\ gt_output_before = gt_zero
    /\ gt_output_trace = gt_zero
    /\ gt_pushed = <<>>
    /\ gt_calls = <<>>

InitGt ==
    /\ gt_t \in Transformers
    /\ gt_tick = 0
    /\ gt_delta = gt_zero
    /\ gt_input_trace = gt_zero
    /\ gt_output_before = gt_zero
    /\ gt_output_trace = gt_zero
    /\ gt_pushed = <<>>
    /\ gt_calls = <<>>

\* One step() of the circuit with input delta.
GroupTransformStep(delta) ==
    /\ gt_tick < MaxTicks
    /\ gt_t.name # "none"
    /\ \E r \in {GroupTransform_eval(gt_t, delta, gt_input_trace,
                                     gt_output_trace)} :
          /\ gt_pushed' = r.pushed
          /\ gt_calls' = r.calls
          /\ gt_output_trace' = gt_plus(gt_output_trace, builder_done(r.pushed))
    /\ gt_output_before' = gt_output_trace
    /\ gt_input_trace' = gt_plus(gt_input_trace, delta)
    /\ gt_delta' = delta
    /\ gt_tick' = gt_tick + 1
    /\ UNCHANGED gt_t
    /\ UNCHANGED othersGt

\* The traces handed to one call of eval: empty, one value, every value,
\* a weight of two, a negative weight, the other key, both keys.
GtTraces ==
    {gt_indexed({}),
     gt_indexed({<<1, 1, 1>>}),
     gt_indexed({<<1, 2, 1>>}),
     gt_indexed({<<1, 1, 1>>, <<1, 3, 1>>}),
     gt_indexed({<<1, 1, 1>>, <<1, 2, 1>>, <<1, 3, 1>>}),
     gt_indexed({<<1, 2, 2>>}),
     gt_indexed({<<1, 3, 0 - 1>>}),
     gt_indexed({<<2, 1, 1>>}),
     gt_indexed({<<1, 1, 1>>, <<2, 1, 1>>})}

\* One call of GroupTransform::eval on a delta, an input trace and an
\* output trace.
GroupTransformEval(delta, input_trace, output_trace) ==
    /\ gt_t.name # "none"
    /\ gt_tick = 0
    /\ \E r \in {GroupTransform_eval(gt_t, delta, input_trace,
                                     output_trace)} :
          /\ gt_pushed' = r.pushed
          /\ gt_calls' = r.calls
          /\ gt_output_trace' = gt_plus(output_trace, builder_done(r.pushed))
    /\ gt_output_before' = output_trace
    /\ gt_input_trace' = gt_plus(input_trace, delta)
    /\ gt_delta' = delta
    /\ gt_tick' = 1
    /\ UNCHANGED gt_t
    /\ UNCHANGED othersGt

(***************************************************************************)
(* FINITE MAPS (algebra/finite_map/mod.rs).  A FiniteHashMap wraps a       *)
(* HashMap, modelled as a function whose domain is the set of the keys     *)
(* that have an entry; an entry can hold any value, zero included.         *)
(***************************************************************************)
FmKeys == 1 .. 2
MaxWeight == 2
FmValues == (0 - MaxWeight) .. MaxWeight
FmNames == {"a", "b"}

\* Option<&Value>
None == <<>>
Some(v) == <<v>>

\* FiniteHashMap::new
FiniteHashMap_new == [k \in {} |-> 0]

\* VacantEntry::insert, and assignment through OccupiedEntry::get_mut
entry_insert(m, k, v) == [x \in DOMAIN m \cup {k} |-> IF x = k THEN v ELSE m[x]]

\* OccupiedEntry::remove_entry
entry_remove(m, k) == [x \in DOMAIN m \ {k} |-> m[x]]

FiniteHashMap_increment(m, k, value) ==
    IF is_zero(value) THEN m
    ELSE IF k \notin DOMAIN m THEN entry_insert(m, k, value)
    ELSE IF is_zero(m[k] + value) THEN entry_remove(m, k)
    ELSE entry_insert(m, k, m[k] + value)

FiniteHashMap_increment_owned(m, k, value) ==
    IF is_zero(value) THEN m
    ELSE IF k \notin DOMAIN m THEN entry_insert(m, k, value)
    ELSE IF is_zero(m[k] + value) THEN entry_remove(m, k)
    ELSE entry_insert(m, k, m[k] + value)

FiniteHashMap_lookup(m, k) == IF k \in DOMAIN m THEN m[k] ELSE 0

FiniteHashMap_get_in_support(m, k) ==
    IF k \in DOMAIN m THEN Some(m[k]) ELSE None

\* The closures handed to update and update_owned.
UpdateFuncs == {"add_one", "sub_one", "negate", "clear", "keep"}

apply_f(f, v) ==
    CASE f = "add_one" -> v + 1
      [] f = "sub_one" -> v - 1
      [] f = "negate" -> 0 - v
      [] f = "clear" -> 0
      [] f = "keep" -> v

FiniteHashMap_update(m, k, f) ==
    IF k \in DOMAIN m
    THEN IF is_zero(apply_f(f, m[k])) THEN entry_remove(m, k)
         ELSE entry_insert(m, k, apply_f(f, m[k]))
    ELSE IF ~is_zero(apply_f(f, 0)) THEN entry_insert(m, k, apply_f(f, 0))
         ELSE m

\* The vacant arm inserts the value without looking at it.
FiniteHashMap_update_owned(m, k, f) ==
    IF k \in DOMAIN m
    THEN IF is_zero(apply_f(f, m[k])) THEN entry_remove(m, k)
         ELSE entry_insert(m, k, apply_f(f, m[k]))
    ELSE entry_insert(m, k, apply_f(f, 0))

FiniteHashMap_support_size(m) == Cardinality(DOMAIN m)

\* `for (k, value) in other.value { match this.value.entry(k) .. }`:
\* the loop of add_inner, add_assign and add_assign_by_ref, over the
\* entries of other that are left.
RECURSIVE add_loop(_, _, _)
add_loop(this, other, left) ==
    IF left = {} THEN this
    ELSE LET ky == CHOOSE k \in left : TRUE
             value == other[ky]
             next == IF ky \notin DOMAIN this
                       THEN entry_insert(this, ky, value)
                     ELSE IF is_zero(this[ky] + value)
                       THEN entry_remove(this, ky)
                     ELSE entry_insert(this, ky, this[ky] + value)
         IN  add_loop(next, other, left \ {ky})

add_inner(this, other) == add_loop(this, other, DOMAIN other)

FiniteHashMap_add(self, other) ==
    IF FiniteHashMap_support_size(self) > FiniteHashMap_support_size(other)
    THEN add_inner(self, other)
    ELSE add_inner(other, self)

FiniteHashMap_add_by_ref(self, other) ==
    IF FiniteHashMap_support_size(self) > FiniteHashMap_support_size(other)
    THEN add_inner(self, other)
    ELSE add_inner(other, self)

FiniteHashMap_add_assign(self, other) == add_loop(self, other, DOMAIN other)

FiniteHashMap_add_assign_by_ref(self, other) ==
    add_loop(self, other, DOMAIN other)

FiniteHashMap_is_zero(m) == DOMAIN m = {}

FiniteHashMap_neg_by_ref(self) == [k \in DOMAIN self |-> 0 - self[k]]

FiniteHashMap_neg(self) == [k \in DOMAIN self |-> 0 - self[k]]

\* HashMap::eq: the same number of entries, and every entry of self has an
\* entry of other with an equal value.
FiniteHashMap_eq(self, other) ==
    /\ Cardinality(DOMAIN self) = Cardinality(DOMAIN other)
    /\ \A k \in DOMAIN self : k \in DOMAIN other /\ self[k] = other[k]

\* The other map of the two.
FmOther(m) == IF m = "a" THEN "b" ELSE "a"

\* The values stay within the range of the model.
InRange(acc) == \A k \in FmKeys : acc[k] \in FmValues

acc_zero == [k \in FmKeys |-> 0]
acc_plus(x, y) == [k \in FmKeys |-> x[k] + y[k]]
acc_neg(x) == [k \in FmKeys |-> 0 - x[k]]

IdleFm ==
    /\ fm = [m \in FmNames |-> FiniteHashMap_new]
    /\ fm_acc = [m \in FmNames |-> acc_zero]
    /\ fm_last = <<"idle">>

\* Two empty maps.
InitFm ==
    /\ fm = [m \in FmNames |-> FiniteHashMap_new]
    /\ fm_acc = [m \in FmNames |-> acc_zero]
    /\ fm_last = <<"new">>

FmIncrement(m, k, v) ==
    /\ fm_acc[m][k] + v \in FmValues
    /\ fm' = [fm EXCEPT ![m] = FiniteHashMap_increment(@, k, v)]
    /\ fm_acc' = [fm_acc EXCEPT ![m][k] = @ + v]
    /\ fm_last' = <<"increment", m>>
    /\ UNCHANGED othersFm

FmIncrementOwned(m, k, v) ==
    /\ fm_acc[m][k] + v \in FmValues
    /\ fm' = [fm EXCEPT ![m] = FiniteHashMap_increment_owned(@, k, v)]
    /\ fm_acc' = [fm_acc EXCEPT ![m][k] = @ + v]
    /\ fm_last' = <<"increment_owned", m>>
    /\ UNCHANGED othersFm

FmUpdate(m, k, f) ==
    /\ apply_f(f, fm_acc[m][k]) \in FmValues
    /\ fm' = [fm EXCEPT ![m] = FiniteHashMap_update(@, k, f)]
    /\ fm_acc' = [fm_acc EXCEPT ![m][k] = apply_f(f, @)]
    /\ fm_last' = <<"update", m>>
    /\ UNCHANGED othersFm

FmUpdateOwned(m, k, f) ==
    /\ apply_f(f, fm_acc[m][k]) \in FmValues
    /\ fm' = [fm EXCEPT ![m] = FiniteHashMap_update_owned(@, k, f)]
    /\ fm_acc' = [fm_acc EXCEPT ![m][k] = apply_f(f, @)]
    /\ fm_last' = <<"update_owned", m>>
    /\ UNCHANGED othersFm

\* m = m + other; the other operand is a clone that stays.
FmAdd(m) ==
    /\ InRange(acc_plus(fm_acc[m], fm_acc[FmOther(m)]))
    /\ fm' = [fm EXCEPT ![m] = FiniteHashMap_add(@, fm[FmOther(m)])]
    /\ fm_acc' = [fm_acc EXCEPT ![m] = acc_plus(@, fm_acc[FmOther(m)])]
    /\ fm_last' = <<"add", m>>
    /\ UNCHANGED othersFm

FmAddByRef(m) ==
    /\ InRange(acc_plus(fm_acc[m], fm_acc[FmOther(m)]))
    /\ fm' = [fm EXCEPT ![m] = FiniteHashMap_add_by_ref(@, fm[FmOther(m)])]
    /\ fm_acc' = [fm_acc EXCEPT ![m] = acc_plus(@, fm_acc[FmOther(m)])]
    /\ fm_last' = <<"add_by_ref", m>>
    /\ UNCHANGED othersFm

FmAddAssign(m) ==
    /\ InRange(acc_plus(fm_acc[m], fm_acc[FmOther(m)]))
    /\ fm' = [fm EXCEPT ![m] = FiniteHashMap_add_assign(@, fm[FmOther(m)])]
    /\ fm_acc' = [fm_acc EXCEPT ![m] = acc_plus(@, fm_acc[FmOther(m)])]
    /\ fm_last' = <<"add_assign", m>>
    /\ UNCHANGED othersFm

FmAddAssignByRef(m) ==
    /\ InRange(acc_plus(fm_acc[m], fm_acc[FmOther(m)]))
    /\ fm' = [fm EXCEPT ![m] = FiniteHashMap_add_assign_by_ref(@, fm[FmOther(m)])]
    /\ fm_acc' = [fm_acc EXCEPT ![m] = acc_plus(@, fm_acc[FmOther(m)])]
    /\ fm_last' = <<"add_assign_by_ref", m>>
    /\ UNCHANGED othersFm

FmNeg(m) ==
    /\ fm' = [fm EXCEPT ![m] = FiniteHashMap_neg(@)]
    /\ fm_acc' = [fm_acc EXCEPT ![m] = acc_neg(@)]
    /\ fm_last' = <<"neg", m>>
    /\ UNCHANGED othersFm

FmNegByRef(m) ==
    /\ fm' = [fm EXCEPT ![m] = FiniteHashMap_neg_by_ref(@)]
    /\ fm_acc' = [fm_acc EXCEPT ![m] = acc_neg(@)]
    /\ fm_last' = <<"neg_by_ref", m>>
    /\ UNCHANGED othersFm

(***************************************************************************)
(* CHECKED INTEGERS (algebra/checked_int.rs).  CheckedInt<T> over a signed *)
(* integer type T of IntBits bits.  An operation returns Some(value), or   *)
(* the thread panics with "overflow".                                      *)
(***************************************************************************)
IntBits == 4
i_MIN == 0 - 2 ^ (IntBits - 1)
i_MAX == 2 ^ (IntBits - 1) - 1
IntValues == i_MIN .. i_MAX

\* The two's complement value of the low IntBits bits of n.
wrapping(n) == ((n - i_MIN) % (2 ^ IntBits)) + i_MIN

\* T::checked_add: the sum of two operands of the same sign overflows when
\* the sign of the wrapped sum differs from theirs.
checked_add(x, y) ==
    IF ((x >= 0) <=> (y >= 0)) /\ ~((wrapping(x + y) >= 0) <=> (x >= 0))
    THEN None ELSE Some(wrapping(x + y))

\* T::checked_mul: the product overflows when the wide product differs
\* from its low IntBits bits.
checked_mul(x, y) ==
    IF wrapping(x * y) # x * y THEN None ELSE Some(wrapping(x * y))

\* T::checked_neg: only the minimum has no negation.
checked_neg(x) == IF x = i_MIN THEN None ELSE Some(wrapping(0 - x))

Panic == <<"panic", "overflow">>

\* Option::expect("overflow")
expect(opt) == IF opt = None THEN Panic ELSE opt

\* An addition that wraps.
CheckedInt_add_Wrapping(self, other) == Some(wrapping(self + other))

CheckedInt_add(self, other) == expect(checked_add(self, other))

CheckedInt_add_by_ref(self, other) == expect(checked_add(self, other))

\* The assigning variants: what self holds after the call.
CheckedInt_add_assign(self, other) == expect(checked_add(self, other))

CheckedInt_add_assign_by_ref(self, other) == expect(checked_add(self, other))

CheckedInt_mul_by_ref(self, rhs) == expect(checked_mul(self, rhs))

CheckedInt_neg_by_ref(self) == expect(checked_neg(self))

CheckedInt_neg(self) == expect(checked_neg(self))

IdleCi ==
    /\ ci_x = 0
    /\ ci_y = 0
    /\ ci_op = "idle"
    /\ ci_out = None

\* Any two values of the type.
InitCi ==
    /\ ci_x \in IntValues
    /\ ci_y \in IntValues
    /\ ci_op = "none"
    /\ ci_out = None

CiAdd ==
    /\ ci_op = "none"
    /\ ci_op' = "add"
    /\ ci_out' = CheckedInt_add(ci_x, ci_y)
    /\ UNCHANGED <<ci_x, ci_y>>
    /\ UNCHANGED othersCi

CiAddByRef ==
    /\ ci_op = "none"
    /\ ci_op' = "add_by_ref"
    /\ ci_out' = CheckedInt_add_by_ref(ci_x, ci_y)
    /\ UNCHANGED <<ci_x, ci_y>>
    /\ UNCHANGED othersCi

CiAddAssign ==
    /\ ci_op = "none"
    /\ ci_op' = "add_assign"
    /\ ci_out' = CheckedInt_add_assign(ci_x, ci_y)
    /\ UNCHANGED <<ci_x, ci_y>>
    /\ UNCHANGED othersCi

CiAddAssignByRef ==
    /\ ci_op = "none"
    /\ ci_op' = "add_assign_by_ref"
    /\ ci_out' = CheckedInt_add_assign_by_ref(ci_x, ci_y)
    /\ UNCHANGED <<ci_x, ci_y>>
    /\ UNCHANGED othersCi

CiMulByRef ==
    /\ ci_op = "none"
    /\ ci_op' = "mul_by_ref"
    /\ ci_out' = CheckedInt_mul_by_ref(ci_x, ci_y)
    /\ UNCHANGED <<ci_x, ci_y>>
    /\ UNCHANGED othersCi

CiNeg ==
    /\ ci_op = "none"
    /\ ci_op' = "neg"
    /\ ci_out' = CheckedInt_neg(ci_x)
    /\ UNCHANGED <<ci_x, ci_y>>
    /\ UNCHANGED othersCi

CiNegByRef ==
    /\ ci_op = "none"
    /\ ci_op' = "neg_by_ref"
    /\ ci_out' = CheckedInt_neg_by_ref(ci_x)
    /\ UNCHANGED <<ci_x, ci_y>>
    /\ UNCHANGED othersCi

(***************************************************************************)
(* PRODUCT TIMESTAMPS (time/product.rs).  A timestamp type is given by its *)
(* nesting depth T: depth 0 is u32, depth T > 0 is Product<TOuter, u32>    *)
(* with TOuter of depth T - 1.  A u32 is an integer, a product a record.   *)
(***************************************************************************)
MaxTime == 2
MaxDepth == 2
Times == 0 .. MaxTime
Scopes == 0 .. MaxDepth

RECURSIVE TimestampsOf(_)
TimestampsOf(T) ==
    IF T = 0 THEN Times
    ELSE [outer : TimestampsOf(T - 1), inner : Times]

\* The timestamp u32: ordered by <=, joined by max, met by min, starting
\* at 0 and advanced by one tick whatever the scope.
u32_less_equal(self, other) == self <= other
u32_join(self, other) == Max(self, other)
u32_meet(self, other) == Min(self, other)
u32_minimum == 0
u32_advance(self, scope) == self + 1

Product_new(outer, inner) == [outer |-> outer, inner |-> inner]

\* A join that keeps the inner coordinate of self.
RECURSIVE Product_join_Outer(_, _, _)
Product_join_Outer(T, self, other) ==
    IF T = 0 THEN u32_join(self, other)
    ELSE [outer |-> Product_join_Outer(T - 1, self.outer, other.outer),
          inner |-> self.inner]

RECURSIVE Product_join(_, _, _)
Product_join(T, self, other) ==
    IF T = 0 THEN u32_join(self, other)
    ELSE [outer |-> Product_join(T - 1, self.outer, other.outer),
          inner |-> u32_join(self.inner, other.inner)]

RECURSIVE Product_meet(_, _, _)
Product_meet(T, self, other) ==
    IF T = 0 THEN u32_meet(self, other)
    ELSE [outer |-> Product_meet(T - 1, self.outer, other.outer),
          inner |-> u32_meet(self.inner, other.inner)]

RECURSIVE Product_less_equal(_, _, _)
Product_less_equal(T, self, other) ==
    IF T = 0 THEN u32_less_equal(self, other)
    ELSE /\ Product_less_equal(T - 1, self.outer, other.outer)
         /\ u32_less_equal(self.inner, other.inner)

RECURSIVE Product_minimum(_)
Product_minimum(T) ==
    IF T = 0 THEN u32_minimum
    ELSE Product_new(Product_minimum(T - 1), u32_minimum)

\* An advance of an outer scope that leaves the inner coordinate.
RECURSIVE Product_advance_KeepInner(_, _, _)
Product_advance_KeepInner(T, self, scope) ==
    IF T = 0 THEN u32_advance(self, scope)
    ELSE IF scope = 0
      THEN Product_new(self.outer, u32_advance(self.inner, 0))
      ELSE Product_new(Product_advance_KeepInner(T - 1, self.outer, scope - 1),
                       self.inner)

RECURSIVE Product_advance(_, _, _)
Product_advance(T, self, scope) ==
    IF T = 0 THEN u32_advance(self, scope)
    ELSE IF scope = 0
      THEN Product_new(self.outer, u32_advance(self.inner, 0))
      ELSE Product_new(Product_advance(T - 1, self.outer, scope - 1),
                       u32_minimum)

\* The timestamp u32 pushed back by one tick, not below its minimum.
u32_recede(self, scope) == Max(u32_minimum, self - 1)

\* A recede that returns the timestamp as it is.
Product_recede_Same(T, self, scope) == self

RECURSIVE Product_recede(_, _, _)
Product_recede(T, self, scope) ==
    IF T = 0 THEN u32_recede(self, scope)
    ELSE IF scope = 0
      THEN Product_new(self.outer, u32_recede(self.inner, 0))
      ELSE Product_new(Product_recede(T - 1, self.outer, scope - 1), self.inner)

IdleTs ==
    /\ ts_T = 0
    /\ ts_a = 0
    /\ ts_b = 0
    /\ ts_op = <<"idle">>
    /\ ts_out = None

\* Any two timestamps of one product type.
InitTs ==
    /\ ts_T \in 1 .. MaxDepth
    /\ ts_a \in TimestampsOf(ts_T)
    /\ ts_b \in TimestampsOf(ts_T)
    /\ ts_op = <<"none">>
    /\ ts_out = None

TsJoin ==
    /\ ts_op = <<"none">>
    /\ ts_op' = <<"join">>
    /\ ts_out' = Some(Product_join(ts_T, ts_a, ts_b))
    /\ UNCHANGED <<ts_T, ts_a, ts_b>>
    /\ UNCHANGED othersTs

TsMeet ==
    /\ ts_op = <<"none">>
    /\ ts_op' = <<"meet">>
    /\ ts_out' = Some(Product_meet(ts_T, ts_a, ts_b))
    /\ UNCHANGED <<ts_T, ts_a, ts_b>>
    /\ UNCHANGED othersTs

TsLessEqual ==
    /\ ts_op = <<"none">>
    /\ ts_op' = <<"less_equal">>
    /\ ts_out' = Some(Product_less_equal(ts_T, ts_a, ts_b))
    /\ UNCHANGED <<ts_T, ts_a, ts_b>>
    /\ UNCHANGED othersTs

TsAdvance(scope) ==
    /\ ts_op = <<"none">>
    /\ ts_op' = <<"advance", scope>>
    /\ ts_out' = Some(Product_advance(ts_T, ts_a, scope))
    /\ UNCHANGED <<ts_T, ts_a, ts_b>>
    /\ UNCHANGED othersTs

\* t.advance(scope).recede(scope)
TsAdvanceRecede(scope) ==
    /\ ts_op = <<"none">>
    /\ ts_op' = <<"advance_recede", scope>>
    /\ ts_out' = Some(Product_recede(ts_T, Product_advance(ts_T, ts_a, scope), scope))
    /\ UNCHANGED <<ts_T, ts_a, ts_b>>
    /\ UNCHANGED othersTs

(***************************************************************************)
(* RUNTIME: Runtime::run and RuntimeHandle::join with closures that may    *)
(* panic.  Threads are the worker threads 0 .. nworkers-1 and the client   *)
(* thread, which no runtime spawned.                                       *)
(***************************************************************************)
ClientThread == NumWorkers
Threads == 0 .. NumWorkers

\* Self(Arc::new(RuntimeInner::new(nworkers)))
Runtime_new(nworkers) == [nworkers |-> nworkers]

\* Runtime::runtime, Runtime::worker_index and Runtime::kill_in_progress
\* called in thread t; Runtime::num_workers.
Runtime_runtime(t) == RUNTIME[t]
Runtime_worker_index(t) == WORKER_INDEX[t]
Runtime_kill_in_progress(t) == KILL_SIGNAL[t]
num_workers(runtime) == runtime.nworkers

Terminated(w) == th_pc[w] \in {"exited", "panicked"}

\* The thread-locals hold their initial values in every thread.
ThreadLocalsInit ==
    /\ RUNTIME = [t \in Threads |-> None]
    /\ WORKER_INDEX = [t \in Threads |-> 0]
    /\ KILL_SIGNAL = [t \in Threads |-> FALSE]

IdleRun ==
    /\ run_n = 0
    /\ run_pc = "idle"
    /\ run_i = 0
    /\ run_workers = <<>>
    /\ th_pc = [w \in Workers |-> "unspawned"]
    /\ ThreadLocalsInit
    /\ f_runs = [w \in Workers |-> 0]
    /\ f_obs = [t \in Threads |-> None]
    /\ join_results = <<>>
    /\ join_ret = "none"

\* The client calls Runtime::run(nworkers, f).
InitRun ==
    /\ run_n \in 1 .. NumWorkers
    /\ run_pc = "spawn"
    /\ run_i = 0
    /\ run_workers = <<>>
    /\ th_pc = [w \in Workers |-> "unspawned"]
    /\ ThreadLocalsInit
    /\ f_runs = [w \in Workers |-> 0]
    /\ f_obs = [t \in Threads |-> None]
    /\ join_results = <<>>
    /\ join_ret = "none"

\* builder.spawn(..) for worker_index = run_i
RunSpawn ==
    /\ run_pc = "spawn"
    /\ th_pc' = [th_pc EXCEPT ![run_i] = "set_runtime"]
    /\ run_pc' = "recv"
    /\ UNCHANGED <<run_n, run_i, run_workers, RUNTIME, WORKER_INDEX,
                   KILL_SIGNAL, f_runs, f_obs, join_results, join_ret>>
    /\ UNCHANGED othersRun

\* RUNTIME.with(|rt| *rt.borrow_mut() = Some(runtime))
WorkerSetRuntime(w) ==
    /\ th_pc[w] = "set_runtime"
    /\ RUNTIME' = [RUNTIME EXCEPT ![w] = Some(Runtime_new(run_n))]
    /\ th_pc' = [th_pc EXCEPT ![w] = "set_index"]
    /\ UNCHANGED <<run_n, run_pc, run_i, run_workers, WORKER_INDEX,
                   KILL_SIGNAL, f_runs, f_obs, join_results, join_ret>>
    /\ UNCHANGED othersRun

\* A worker that leaves WORKER_INDEX alone.
WorkerSetIndex_Skip(w) ==
    /\ th_pc[w] = "set_index"
    /\ th_pc' = [th_pc EXCEPT ![w] = "send"]
    /\ UNCHANGED <<run_n, run_pc, run_i, run_workers, RUNTIME, WORKER_INDEX,
                   KILL_SIGNAL, f_runs, f_obs, join_results, join_ret>>
    /\ UNCHANGED othersRun

\* WORKER_INDEX.with(|w| w.set(worker_index))
WorkerSetIndex(w) ==
    /\ th_pc[w] = "set_index"
    /\ WORKER_INDEX' = [WORKER_INDEX EXCEPT ![w] = w]
    /\ th_pc' = [th_pc EXCEPT ![w] = "send"]
    /\ UNCHANGED <<run_n, run_pc, run_i, run_workers, RUNTIME,
                   KILL_SIGNAL, f_runs, f_obs, join_results, join_ret>>
    /\ UNCHANGED othersRun

\* A client that pushes a handle without waiting for the worker's send.
RunRecv_NoWait ==
    /\ run_pc = "recv"
    /\ th_pc' = [th_pc EXCEPT ![run_i] = IF @ = "send" THEN "call_f" ELSE @]
    /\ run_workers' = Append(run_workers, run_i)
    /\ run_i' = run_i + 1
    /\ run_pc' = IF run_i + 1 < run_n THEN "spawn" ELSE "held"
    /\ UNCHANGED <<run_n, RUNTIME, WORKER_INDEX, KILL_SIGNAL, f_runs, f_obs,
                   join_results, join_ret>>
    /\ UNCHANGED othersRun

\* init_sender.send(..) meets init_receiver.recv() (a channel of capacity
\* 0); the client pushes the worker's handle and goes on to the next
\* worker or returns the RuntimeHandle.
RunRecv ==
    /\ run_pc = "recv"
    /\ th_pc[run_i] = "send"
    /\ th_pc' = [th_pc EXCEPT ![run_i] = "call_f"]
    /\ run_workers' = Append(run_workers, run_i)
    /\ run_i' = run_i + 1
    /\ run_pc' = IF run_i + 1 < run_n THEN "spawn" ELSE "held"
    /\ UNCHANGED <<run_n, RUNTIME, WORKER_INDEX, KILL_SIGNAL, f_runs, f_obs,
                   join_results, join_ret>>
    /\ UNCHANGED othersRun

\* What a thread sees through the Runtime API.
Observation(t) ==
    [worker_index |-> Runtime_worker_index(t),
     runtime |-> Runtime_runtime(t),
     kill_in_progress |-> Runtime_kill_in_progress(t)]

\* f(): the closure starts and looks at the Runtime API.
WorkerCallF(w) ==
    /\ th_pc[w] = "call_f"
    /\ f_runs' = [f_runs EXCEPT ![w] = @ + 1]
    /\ f_obs' = [f_obs EXCEPT ![w] = Some(Observation(w))]
    /\ th_pc' = [th_pc EXCEPT ![w] = "in_f"]
    /\ UNCHANGED <<run_n, run_pc, run_i, run_workers, RUNTIME, WORKER_INDEX,
                   KILL_SIGNAL, join_results, join_ret>>
    /\ UNCHANGED othersRun

\* The closure returns and the thread terminates.
WorkerFReturn(w) ==
    /\ th_pc[w] = "in_f"
    /\ th_pc' = [th_pc EXCEPT ![w] = "exited"]
    /\ UNCHANGED <<run_n, run_pc, run_i, run_workers, RUNTIME, WORKER_INDEX,
                   KILL_SIGNAL, f_runs, f_obs, join_results, join_ret>>
    /\ UNCHANGED othersRun

\* The closure panics and the thread terminates.
WorkerFPanic(w) ==
    /\ th_pc[w] = "in_f"
    /\ th_pc' = [th_pc EXCEPT ![w] = "panicked"]
    /\ UNCHANGED <<run_n, run_pc, run_i, run_workers, RUNTIME, WORKER_INDEX,
                   KILL_SIGNAL, f_runs, f_obs, join_results, join_ret>>
    /\ UNCHANGED othersRun

\* The client thread looks at the Runtime API.
ClientObserve ==
    /\ f_obs[ClientThread] = None
    /\ f_obs' = [f_obs EXCEPT ![ClientThread] = Some(Observation(ClientThread))]
    /\ UNCHANGED <<run_n, run_pc, run_i, run_workers, th_pc, RUNTIME,
                   WORKER_INDEX, KILL_SIGNAL, f_runs, join_results, join_ret>>
    /\ UNCHANGED othersRun

\* The client calls RuntimeHandle::kill: the loop over self.workers starts.
RunKill ==
    /\ run_pc = "held"
    /\ run_pc' = "kill_store"
    /\ run_i' = 0
    /\ UNCHANGED <<run_n, run_workers, th_pc, RUNTIME, WORKER_INDEX,
                   KILL_SIGNAL, f_runs, f_obs, join_results, join_ret>>
    /\ UNCHANGED othersRun

\* worker.kill_signal.store(true, Ordering::SeqCst): a worker's kill_signal
\* is the KILL_SIGNAL of its thread.
RunKillStore ==
    /\ run_pc = "kill_store"
    /\ KILL_SIGNAL' = [KILL_SIGNAL EXCEPT ![run_workers[run_i + 1]] = TRUE]
    /\ run_pc' = "kill_unpark"
    /\ UNCHANGED <<run_n, run_i, run_workers, th_pc, RUNTIME, WORKER_INDEX,
                   f_runs, f_obs, join_results, join_ret>>
    /\ UNCHANGED othersRun

\* worker.unparker.unpark(), then the next worker or, after the last one,
\* self.join().  The call leaves the token in the worker's PARKER; the
\* closures of this part never park, so that it stays there.
RunKillUnpark ==
    /\ run_pc = "kill_unpark"
    /\ parker_token' = [parker_token EXCEPT ![run_workers[run_i + 1]] = TRUE]
    /\ run_i' = IF run_i + 1 < Len(run_workers) THEN run_i + 1 ELSE 0
    /\ run_pc' = IF run_i + 1 < Len(run_workers) THEN "kill_store" ELSE "join"
    /\ UNCHANGED <<run_n, run_workers, th_pc, RUNTIME, WORKER_INDEX,
                   KILL_SIGNAL, f_runs, f_obs, join_results, join_ret>>
    /\ UNCHANGED <<worker_pc, step_result, kill_signal, handle_op, handle_pc, handle_i>>
    /\ UNCHANGED <<seqVars, consVars, cpVars, aggVars, gtVars, fmVars, ciVars,
                   tsVars, agVars, q21Vars, fpVars, advVars>>

\* The client calls RuntimeHandle::join.
RunJoin ==
    /\ run_pc = "held"
    /\ run_pc' = "join"
    /\ run_i' = 0
    /\ UNCHANGED <<run_n, run_workers, th_pc, RUNTIME, WORKER_INDEX,
                   KILL_SIGNAL, f_runs, f_obs, join_results, join_ret>>
    /\ UNCHANGED othersRun

\* The result of JoinHandle::join for worker w, once w terminated.
thread_result(w) == IF th_pc[w] = "panicked" THEN "Err" ELSE "Ok"

\* A join that gives up at the first worker that panicked.
RunJoinWorker_FailFast ==
    /\ run_pc = "join"
    /\ Terminated(run_workers[run_i + 1])
    /\ join_results' = Append(join_results, thread_result(run_workers[run_i + 1]))
    /\ run_i' = run_i + 1
    /\ run_pc' = IF run_i + 1 < Len(run_workers)
                    /\ thread_result(run_workers[run_i + 1]) = "Ok"
                   THEN "join" ELSE "collect"
    /\ UNCHANGED <<run_n, run_workers, th_pc, RUNTIME, WORKER_INDEX,
                   KILL_SIGNAL, f_runs, f_obs, join_ret>>
    /\ UNCHANGED othersRun

\* .map(|h| h.join_handle.join()).collect(): join blocks until the worker
\* has terminated and its result goes into `results`, whatever it is.
RunJoinWorker ==
    /\ run_pc = "join"
    /\ Terminated(run_workers[run_i + 1])
    /\ join_results' = Append(join_results, thread_result(run_workers[run_i + 1]))
    /\ run_i' = run_i + 1
    /\ run_pc' = IF run_i + 1 < Len(run_workers) THEN "join" ELSE "collect"
    /\ UNCHANGED <<run_n, run_workers, th_pc, RUNTIME, WORKER_INDEX,
                   KILL_SIGNAL, f_runs, f_obs, join_ret>>
    /\ UNCHANGED othersRun

\* results.into_iter().collect::<ThreadResult<()>>(): the first Err, or Ok.
RunJoinCollect ==
    /\ run_pc = "collect"
    /\ join_ret' = IF \E j \in 1 .. Len(join_results) : join_results[j] = "Err"
                     THEN "Err" ELSE "Ok"
    /\ run_pc' = "done"
    /\ UNCHANGED <<run_n, run_i, run_workers, th_pc, RUNTIME, WORKER_INDEX,
                   KILL_SIGNAL, f_runs, f_obs, join_results>>
    /\ UNCHANGED othersRun

(***************************************************************************)
(* The Aggregate operator on its own: one eval on any input.               *)
(***************************************************************************)
AgWeights == -1 .. 1

IdleAg ==
    /\ ag_f = "sum"
    /\ ag_i = batch_zero
    /\ ag_elements = <<>>
    /\ ag_o = zset_zero
    /\ ag_pc = "idle"

\* Stream::aggregate(f) on a stream that carries any indexed Z-set.
InitAg ==
    /\ ag_f \in AggFuncs
    /\ ag_i \in [AggKeys \X AggVals -> AgWeights]
    /\ ag_elements = <<>>
    /\ ag_o = zset_zero
    /\ ag_pc = "eval"

\* Aggregate::eval
AggregateEval ==
    /\ ag_pc = "eval"
    /\ ag_elements' = Aggregate_loop(ag_f, batch_cursor(ag_i), <<>>)
    /\ ag_o' = Aggregate_eval(ag_f, ag_i)
    /\ ag_pc' = "done"
    /\ UNCHANGED <<ag_f, ag_i>>
    /\ UNCHANGED othersAg

(***************************************************************************)
(* NEXMARK QUERY q21: the channel id of a bid.                             *)
(*                                                                         *)
(* A string is the sequence of its characters.  An event is a bid with     *)
(* its auction, bidder, price, channel and url, or an event of another     *)
(* kind; the query is applied to one event of the input Z-set with its     *)
(* weight.                                                                 *)
(***************************************************************************)
apple == <<"a", "p", "p", "l", "e">>
google == <<"g", "o", "o", "g", "l", "e">>
facebook == <<"f", "a", "c", "e", "b", "o", "o", "k">>
baidu == <<"b", "a", "i", "d", "u">>

\* The literal part of the pattern channel_id=([^&]*).
channel_id_literal == <<"c", "h", "a", "n", "n", "e", "l", "_", "i", "d", "=">>

\* char::to_lowercase on the characters that occur in the inputs.
to_lowercase_char(c) ==
    CASE c = "A" -> "a"
      [] c = "B" -> "b"
      [] c = "C" -> "c"
      [] c = "D" -> "d"
      [] c = "E" -> "e"
      [] c = "F" -> "f"
      [] c = "G" -> "g"
      [] c = "H" -> "h"
      [] c = "I" -> "i"
      [] c = "J" -> "j"
      [] c = "K" -> "k"
      [] c = "L" -> "l"
      [] c = "M" -> "m"
      [] c = "N" -> "n"
      [] c = "O" -> "o"
      [] c = "P" -> "p"
      [] c = "Q" -> "q"
      [] c = "R" -> "r"
      [] c = "S" -> "s"
      [] c = "T" -> "t"
      [] c = "U" -> "u"
      [] c = "V" -> "v"
      [] c = "W" -> "w"
      [] c = "X" -> "x"
      [] c = "Y" -> "y"
      [] c = "Z" -> "z"
      [] OTHER -> c

\* str::to_lowercase
to_lowercase(s) == [i \in 1 .. Len(s) |-> to_lowercase_char(s[i])]

\* The positions of s where the literal part of the pattern matches.
MatchStarts(s) ==
    {i \in 1 .. Len(s) :
        /\ i + Len(channel_id_literal) - 1 <= Len(s)
        /\ SubSeq(s, i, i + Len(channel_id_literal) - 1) = channel_id_literal}

\* Regex::captures for channel_id=([^&]*): the leftmost match, with the
\* group taking every character up to the next "&" or the end.
\* The captures are the whole match and the group.
channel_regex_captures(s) ==
    IF MatchStarts(s) = {} THEN None
    ELSE LET start == CHOOSE i \in MatchStarts(s) : \A j \in MatchStarts(s) : i <= j
             from == start + Len(channel_id_literal)
             stops == {j \in from .. Len(s) : s[j] = "&"} \cup {Len(s) + 1}
             stop == CHOOSE j \in stops : \A k \in stops : j <= k
         IN  Some(<<SubSeq(s, start, stop - 1), SubSeq(s, from, stop - 1)>>)

\* The channel id of a bid: by the lowercased channel, else by the pattern
\* in the channel.
q21_channel_id(b) ==
    LET lc == to_lowercase(b.channel)
    IN  IF lc = apple THEN Some(<<"0">>)
        ELSE IF lc = google THEN Some(<<"1">>)
        ELSE IF lc = facebook THEN Some(<<"2">>)
        ELSE IF lc = baidu THEN Some(<<"3">>)
        ELSE LET caps == channel_regex_captures(b.channel)
             IN  IF caps = None THEN None
                 ELSE IF Len(caps[1]) = 2 THEN Some(caps[1][2])
                 ELSE None

\* The closure q21 gives to flat_map.
q21_closure(event) ==
    IF event.kind = "Bid"
      THEN LET channel_id == q21_channel_id(event)
           IN  IF channel_id = None THEN None
               ELSE Some(<<event.auction, event.bidder, event.price,
                           event.channel, channel_id[1]>>)
      ELSE None

\* flat_map on one element of the input Z-set: what the closure returns,
\* with the weight of the element.
flat_map(event, w) ==
    IF q21_closure(event) = None THEN None
    ELSE Some(<<q21_closure(event)[1], w>>)

Q21Channels ==
    {<<"A", "p", "P", "l", "E">>,
     <<"a", "p", "p", "l", "e">>,
     <<"G", "o", "o", "G", "l", "e">>,
     <<"F", "a", "c", "e", "B", "o", "o", "k">>,
     <<"B", "a", "i", "d", "u">>,
     <<"B", "A", "I", "D", "U">>,
     <<"a", "p", "p", "l", "e", "s">>,
     <<"w", "e", "b">>,
     <<"x", "?", "c", "h", "a", "n", "n", "e", "l", "_", "i", "d", "=", "u", "b">>,
     <<"x", "?", "c", "h", "a", "n", "n", "e", "l", "_", "i", "d", "=", "u", "b", "&", "b", "=", "c">>,
     <<"c", "h", "a", "n", "n", "e", "l", "_", "i", "d", "=">>,
     <<"n", "o", "t", "_", "c", "h", "a", "n", "n", "e", "l", "_", "i", "d", "=", "n", "o">>,
     <<"?", "n", "o", "t", "_", "c", "h", "a", "n", "n", "e", "l", "i", "d", "=", "x">>,
     <<"?", "C", "H", "A", "N", "N", "E", "L", "_", "I", "D", "=", "u", "p">>}

Q21Urls ==
    {<<"u", "?", "c", "h", "a", "n", "n", "e", "l", "_", "i", "d", "=", "7">>,
     <<"u", "?", "a", "=", "b", "&", "c", "h", "a", "n", "n", "e", "l", "_", "i", "d", "=", "8">>,
     <<"u", "?", "a", "=", "b">>}

Q21Weights == {-1, 1, 2}

\* make_bid() of the tests with the channel and url given.
make_bid(channel, url) ==
    [kind |-> "Bid", auction |-> 1, bidder |-> 1, price |-> 99,
     channel |-> channel, url |-> url]

\* An event that is not a bid.
other_event(kind) ==
    [kind |-> kind, auction |-> 1, bidder |-> 1, price |-> 99,
     channel |-> <<>>, url |-> <<>>]

Q21Events ==
    {make_bid(c, u) : c \in Q21Channels, u \in Q21Urls}
      \cup {other_event("Person"), other_event("Auction")}

IdleQ21 ==
    /\ q21_event = other_event("None")
    /\ q21_weight = 0
    /\ q21_out = None
    /\ q21_pc = "idle"

InitQ21 ==
    /\ q21_event \in Q21Events
    /\ q21_weight \in Q21Weights
    /\ q21_out = None
    /\ q21_pc = "input"

Q21FlatMap ==
    /\ q21_pc = "input"
    /\ q21_pc' = "done"
    /\ q21_out' = flat_map(q21_event, q21_weight)
    /\ UNCHANGED <<q21_event, q21_weight>>
    /\ UNCHANGED othersQ21

(***************************************************************************)
(* THE FIXED-POINT QUERY.  The scheduler of a nested scope asks each of    *)
(* its operators fixedpoint(scope) and ends the iteration when all of them *)
(* answer true.                                                            *)
(***************************************************************************)
MaxOperators == 3

\* unimplemented!()
Unimplemented == <<"panic", "not implemented">>

\* Apply2::fixedpoint
Apply2_fixedpoint(scope) == Unimplemented

\* Aggregate::fixedpoint
Aggregate_fixedpoint == Some(TRUE)

\* AggregateIncremental::fixedpoint
AggregateIncremental_fixedpoint == Some(TRUE)

\* GroupTransform::fixedpoint
GroupTransform_fixedpoint(scope) == Some(TRUE)

OperatorKinds == {"Apply2", "Aggregate", "AggregateIncremental", "GroupTransform"}

\* The call through the Operator trait.
Operator_fixedpoint(op, scope) ==
    CASE op = "Apply2" -> Apply2_fixedpoint(scope)
      [] op = "Aggregate" -> Aggregate_fixedpoint
      [] op = "AggregateIncremental" -> AggregateIncremental_fixedpoint
      [] op = "GroupTransform" -> GroupTransform_fixedpoint(scope)

IdleFp ==
    /\ fp_ops = <<>>
    /\ fp_scope = 0
    /\ fp_i = 0
    /\ fp_out = None

\* A nested scope of one to MaxOperators operators, asked about the
\* innermost or the enclosing scope.
InitFp ==
    /\ fp_ops \in UNION {[1 .. n -> OperatorKinds] : n \in 1 .. MaxOperators}
    /\ fp_scope \in 0 .. 1
    /\ fp_i = 0
    /\ fp_out = None

\* The scheduler asks the next operator; the answers are combined with
\* `and`, a false answer ends the query and a panic aborts it.
FixedpointQuery ==
    /\ fp_i < Len(fp_ops)
    /\ fp_out \in {None, Some(TRUE)}
    /\ \E r \in {Operator_fixedpoint(fp_ops[fp_i + 1], fp_scope)} :
          fp_out' = r
    /\ fp_i' = fp_i + 1
    /\ UNCHANGED <<fp_ops, fp_scope>>
    /\ UNCHANGED othersFp

(***************************************************************************)
(* ADVANCE (trace/layers/mod.rs): the number of elements at the start of a *)
(* slice that satisfy a predicate, by exponential search.  Indexes count   *)
(* from 0 as in the source; slice[i] is the element i + 1 of the sequence. *)
(***************************************************************************)
MaxSliceLen == 20

small_limit == 8

\* A read of slice[i] outside the slice panics.
IndexOutOfBounds == <<"panic", "index out of bounds">>

\* function(&slice[i]) for the predicate |x| x < bound; a read past the end
\* is recorded by the caller and answers false here.
function_at(slice, bound, i) ==
    IF i < Len(slice) THEN slice[i + 1] < bound ELSE FALSE

\* The first loop without the test index + step < slice.len().
RECURSIVE advance_grow_NoBoundsTest(_, _, _, _, _)
advance_grow_NoBoundsTest(slice, bound, index, step, reads) ==
    IF function_at(slice, bound, index + step)
    THEN advance_grow_NoBoundsTest(slice, bound, index + step, step * 2,
                                   reads \cup {index + step})
    ELSE [index |-> index, step |-> step, reads |-> reads \cup {index + step}]

\* while index + step < slice.len() && function(&slice[index + step])
RECURSIVE advance_grow(_, _, _, _, _)
advance_grow(slice, bound, index, step, reads) ==
    IF index + step < Len(slice)
    THEN IF function_at(slice, bound, index + step)
         THEN advance_grow(slice, bound, index + step, step * 2,
                           reads \cup {index + step})
         ELSE [index |-> index, step |-> step,
               reads |-> reads \cup {index + step}]
    ELSE [index |-> index, step |-> step, reads |-> reads]

\* while step > 0: advance by step where the predicate holds, halve step
RECURSIVE advance_shrink(_, _, _, _, _)
advance_shrink(slice, bound, index, step, reads) ==
    IF step > 0
    THEN IF index + step < Len(slice)
         THEN advance_shrink(
                  slice, bound,
                  IF function_at(slice, bound, index + step)
                  THEN index + step ELSE index,
                  step \div 2, reads \cup {index + step})
         ELSE advance_shrink(slice, bound, index, step \div 2, reads)
    ELSE [index |-> index, reads |-> reads]

\* advance(slice, |x| x < bound): the value returned and the indexes read.
advance(slice, bound) ==
    IF Len(slice) > small_limit /\ function_at(slice, bound, small_limit)
    THEN LET index == small_limit + 1
         IN  IF index < Len(slice) /\ function_at(slice, bound, index)
             THEN LET g == advance_grow(slice, bound, index, 1,
                                        {small_limit, index})
                      s == advance_shrink(slice, bound, g.index,
                                          g.step \div 2, g.reads)
                  IN  [ret |-> s.index + 1, reads |-> s.reads]
             ELSE [ret |-> index,
                   reads |-> {small_limit}
                             \cup (IF index < Len(slice) THEN {index} ELSE {})]
    ELSE LET limit == Min(Len(slice), small_limit)
         IN  [ret |-> Cardinality({i \in 0 .. limit - 1 :
                                      function_at(slice, bound, i)}),
              reads |-> (0 .. limit - 1)
                        \cup (IF Len(slice) > small_limit
                              THEN {small_limit} ELSE {})]

\* The ascending slices 0, 1, ..., n - 1.
AdvSlices == {[i \in 1 .. n |-> i - 1] : n \in 0 .. MaxSliceLen}

IdleAdv ==
    /\ adv_slice = <<>>
    /\ adv_bound = 0
    /\ adv_pc = "idle"
    /\ adv_out = None
    /\ adv_reads = {}

\* Any slice and any predicate that holds on a prefix of it and on no
\* later element.
InitAdv ==
    /\ adv_slice \in AdvSlices
    /\ adv_bound \in 0 .. Len(adv_slice)
    /\ adv_pc = "call"
    /\ adv_out = None
    /\ adv_reads = {}

\* One call of advance.
Advance ==
    /\ adv_pc = "call"
    /\ \E r \in {advance(adv_slice, adv_bound)} :
          /\ adv_reads' = r.reads
          /\ adv_out' = IF \E i \in r.reads : i >= Len(adv_slice)
                          THEN IndexOutOfBounds ELSE Some(r.ret)
    /\ adv_pc' = "done"
    /\ UNCHANGED <<adv_slice, adv_bound>>
    /\ UNCHANGED othersAdv

(***************************************************************************)
(* Specifications.                                                         *)
(***************************************************************************)
\* The termination protocol: workers that iterate forever, a client that
\* kills or joins the runtime.
InitKill ==
    InitRuntime /\ IdleSeq /\ IdleCons /\ IdleCp /\ IdleAgg /\ IdleGt
    /\ IdleFm /\ IdleCi /\ IdleTs /\ IdleRun /\ IdleAg /\ IdleQ21 /\ IdleFp /\ IdleAdv

NextKill ==
    \/ \E w \in Workers : SchedulerCheck(w)
    \/ \E w \in Workers : OperatorEval(w)
    \/ \E w \in Workers : ParkerPark(w)
    \/ \E w \in Workers : ParkerSpurious(w)
    \/ \E w \in Workers : WorkerReturn(w)
    \/ KillCall
    \/ KillStore
    \/ KillUnpark
    \/ JoinCall
    \/ JoinWorker

\* Fair thread scheduling: a thread that can take its next step does so.
\* A spurious return from park is never owed, and the client is free not
\* to call kill or join at all.
FairKill ==
    /\ \A w \in Workers : WF_vars(SchedulerCheck(w))
    /\ \A w \in Workers : WF_vars(OperatorEval(w))
    /\ \A w \in Workers : WF_vars(ParkerPark(w))
    /\ \A w \in Workers : WF_vars(WorkerReturn(w))
    /\ WF_vars(KillStore)
    /\ WF_vars(KillUnpark)
    /\ WF_vars(JoinWorker)

SpecKill == InitKill /\ [][NextKill]_vars /\ FairKill

\* The sequence counter: every thread may call sequence_next with every
\* worker index, any number of times up to MaxSeq per index.
InitSeq ==
    InitRuntime /\ IdleSeq /\ IdleCons /\ IdleCp /\ IdleAgg /\ IdleGt
    /\ IdleFm /\ IdleCi /\ IdleTs /\ IdleRun /\ IdleAg /\ IdleQ21 /\ IdleFp /\ IdleAdv

NextSeq ==
    \/ \E t \in Workers, i \in Workers : SequenceNextEntry(t, i)
    \/ \E t \in Workers : SequenceNextLoad(t)
    \/ \E t \in Workers : SequenceNextReturn(t)

SpecSeq == InitSeq /\ [][NextSeq]_vars

\* Consolidation of any vector of at most MaxLen pairs from any offset.
InitConsolidate ==
    InitRuntime /\ IdleSeq /\ InitCons /\ IdleCp /\ IdleAgg /\ IdleGt
    /\ IdleFm /\ IdleCi /\ IdleTs /\ IdleRun /\ IdleAg /\ IdleQ21 /\ IdleFp /\ IdleAdv

NextConsolidate ==
    \/ ConsolidateSort
    \/ ConsolidateStep
    \/ ConsolidateFinish
    \/ ConsolidateAgain

SpecConsolidate == InitConsolidate /\ [][NextConsolidate]_vars

\* The pair cursor over any two batches of at most MaxEntries tuples.
SeekKeys == 1 .. 4
SeekKeysReverse == 0 .. 3
SeekVals == 1 .. 3
SeekValsReverse == 0 .. 2

InitCursorPair ==
    InitRuntime /\ IdleSeq /\ IdleCons /\ InitCp /\ IdleAgg /\ IdleGt
    /\ IdleFm /\ IdleCi /\ IdleTs /\ IdleRun /\ IdleAg /\ IdleQ21 /\ IdleFp /\ IdleAdv

NextCursorPair ==
    \/ PairStepKey
    \/ PairStepKeyReverse
    \/ \E k \in SeekKeys : PairSeekKey(k)
    \/ \E k \in SeekKeysReverse : PairSeekKeyReverse(k)
    \/ PairStepVal
    \/ PairRewindKeys
    \/ PairFastForwardKeys

SpecCursorPair == InitCursorPair /\ [][NextCursorPair]_vars

\* The same client, which also walks the values of a key in reverse and
\* seeks among them.
NextCursorPairVals ==
    \/ PairStepKey
    \/ PairStepKeyReverse
    \/ \E k \in SeekKeys : PairSeekKey(k)
    \/ \E k \in SeekKeysReverse : PairSeekKeyReverse(k)
    \/ PairStepVal
    \/ PairRewindKeys
    \/ PairFastForwardKeys
    \/ PairFastForwardVals
    \/ PairStepValReverse
    \/ PairRewindVals
    \/ \E v \in SeekVals : PairSeekVal(v)
    \/ \E v \in SeekValsReverse : PairSeekValReverse(v)
    \/ \E predicate \in SUBSET CursorVals : PairSeekValWith(predicate)
    \/ \E predicate \in SUBSET CursorVals : PairSeekValWithReverse(predicate)

InitCursorPairVals ==
    InitRuntime /\ IdleSeq /\ IdleCons /\ InitCpVals /\ IdleAgg /\ IdleGt
    /\ IdleFm /\ IdleCi /\ IdleTs /\ IdleRun /\ IdleAg /\ IdleQ21 /\ IdleFp /\ IdleAdv

SpecCursorPairVals == InitCursorPairVals /\ [][NextCursorPairVals]_vars

\* The aggregates: any sequence of up to MaxTicks deltas in the root
\* circuit, or up to MaxEpochs epochs of the child circuit.
InitAggregate ==
    InitRuntime /\ IdleSeq /\ IdleCons /\ IdleCp /\ InitAgg /\ IdleGt
    /\ IdleFm /\ IdleCi /\ IdleTs /\ IdleRun /\ IdleAg /\ IdleQ21 /\ IdleFp /\ IdleAdv

NextAggregate ==
    \/ \E delta \in AggDeltas : RootStep(delta)
    \/ \E delta \in NestedDeltas : NestedStep(delta)
    \/ NestedEpoch

SpecAggregate == InitAggregate /\ [][NextAggregate]_vars

\* Group transform: any transformer, any sequence of up to MaxTicks deltas.
InitGroupTransform ==
    InitRuntime /\ IdleSeq /\ IdleCons /\ IdleCp /\ IdleAgg /\ InitGt
    /\ IdleFm /\ IdleCi /\ IdleTs /\ IdleRun /\ IdleAg /\ IdleQ21 /\ IdleFp /\ IdleAdv

NextGroupTransform == \E delta \in GtDeltas : GroupTransformStep(delta)

SpecGroupTransform == InitGroupTransform /\ [][NextGroupTransform]_vars

\* One call of eval: any transformer, any delta, any two traces.
NextGroupTransformEval ==
    \E delta \in GtDeltas, input_trace \in GtTraces, output_trace \in GtTraces :
        GroupTransformEval(delta, input_trace, output_trace)

SpecGroupTransformEval == InitGroupTransform /\ [][NextGroupTransformEval]_vars

\* Finite maps: any sequence of the public operations on two maps that
\* start empty.
InitFiniteMap ==
    InitRuntime /\ IdleSeq /\ IdleCons /\ IdleCp /\ IdleAgg /\ IdleGt
    /\ InitFm /\ IdleCi /\ IdleTs /\ IdleRun /\ IdleAg /\ IdleQ21 /\ IdleFp /\ IdleAdv

NextFiniteMap ==
    \/ \E m \in FmNames, k \in FmKeys, v \in FmValues : FmIncrement(m, k, v)
    \/ \E m \in FmNames, k \in FmKeys, v \in FmValues : FmIncrementOwned(m, k, v)
    \/ \E m \in FmNames, k \in FmKeys, f \in UpdateFuncs : FmUpdate(m, k, f)
    \/ \E m \in FmNames, k \in FmKeys, f \in UpdateFuncs : FmUpdateOwned(m, k, f)
    \/ \E m \in FmNames : FmAdd(m)
    \/ \E m \in FmNames : FmAddByRef(m)
    \/ \E m \in FmNames : FmAddAssign(m)
    \/ \E m \in FmNames : FmAddAssignByRef(m)
    \/ \E m \in FmNames : FmNeg(m)
    \/ \E m \in FmNames : FmNegByRef(m)

SpecFiniteMap == InitFiniteMap /\ [][NextFiniteMap]_vars

\* Checked integers: one operation on any operands.
InitCheckedInt ==
    InitRuntime /\ IdleSeq /\ IdleCons /\ IdleCp /\ IdleAgg /\ IdleGt
    /\ IdleFm /\ InitCi /\ IdleTs /\ IdleRun /\ IdleAg /\ IdleQ21 /\ IdleFp /\ IdleAdv

NextCheckedInt ==
    \/ CiAdd
    \/ CiAddByRef
    \/ CiAddAssign
    \/ CiAddAssignByRef
    \/ CiMulByRef
    \/ CiNeg
    \/ CiNegByRef

SpecCheckedInt == InitCheckedInt /\ [][NextCheckedInt]_vars

\* Product timestamps: one operation on any two timestamps of a type.
InitProduct ==
    InitRuntime /\ IdleSeq /\ IdleCons /\ IdleCp /\ IdleAgg /\ IdleGt
    /\ IdleFm /\ IdleCi /\ InitTs /\ IdleRun /\ IdleAg /\ IdleQ21 /\ IdleFp /\ IdleAdv

NextProduct ==
    \/ TsJoin
    \/ TsMeet
    \/ TsLessEqual
    \/ \E scope \in Scopes : TsAdvance(scope)
    \/ \E scope \in Scopes : TsAdvanceRecede(scope)

SpecProduct == InitProduct /\ [][NextProduct]_vars

\* Runtime::run with 1 .. NumWorkers workers whose closure looks at the
\* Runtime API and returns or panics; the client kills or joins.
InitRunJoin ==
    InitRuntime /\ IdleSeq /\ IdleCons /\ IdleCp /\ IdleAgg /\ IdleGt
    /\ IdleFm /\ IdleCi /\ IdleTs /\ InitRun /\ IdleAg /\ IdleQ21 /\ IdleFp /\ IdleAdv

NextRunJoin ==
    \/ RunSpawn
    \/ \E w \in Workers : WorkerSetRuntime(w)
    \/ \E w \in Workers : WorkerSetIndex(w)
    \/ RunRecv
    \/ \E w \in Workers : WorkerCallF(w)
    \/ \E w \in Workers : WorkerFReturn(w)
    \/ \E w \in Workers : WorkerFPanic(w)
    \/ ClientObserve
    \/ RunKill
    \/ RunKillStore
    \/ RunKillUnpark
    \/ RunJoin
    \/ RunJoinWorker
    \/ RunJoinCollect

SpecRunJoin == InitRunJoin /\ [][NextRunJoin]_vars

\* The Aggregate operator evaluated once on any indexed Z-set.
InitAggregateEval ==
    InitRuntime /\ IdleSeq /\ IdleCons /\ IdleCp /\ IdleAgg /\ IdleGt
    /\ IdleFm /\ IdleCi /\ IdleTs /\ IdleRun /\ InitAg /\ IdleQ21 /\ IdleFp /\ IdleAdv

NextAggregateEval == AggregateEval

SpecAggregateEval == InitAggregateEval /\ [][NextAggregateEval]_vars

InitQuery21 ==
    InitRuntime /\ IdleSeq /\ IdleCons /\ IdleCp /\ IdleAgg /\ IdleGt
    /\ IdleFm /\ IdleCi /\ IdleTs /\ IdleRun /\ IdleAg /\ InitQ21 /\ IdleFp /\ IdleAdv

NextQuery21 == Q21FlatMap

SpecQuery21 == InitQuery21 /\ [][NextQuery21]_vars

\* The fixed-point query of a nested scope over any operators.
InitFixedpoint ==
    InitRuntime /\ IdleSeq /\ IdleCons /\ IdleCp /\ IdleAgg /\ IdleGt
    /\ IdleFm /\ IdleCi /\ IdleTs /\ IdleRun /\ IdleAg /\ IdleQ21 /\ InitFp /\ IdleAdv

NextFixedpoint == FixedpointQuery

SpecFixedpoint == InitFixedpoint /\ [][NextFixedpoint]_vars

\* advance called once on any slice within the bounds.
InitAdvance ==
    InitRuntime /\ IdleSeq /\ IdleCons /\ IdleCp /\ IdleAgg /\ IdleGt
    /\ IdleFm /\ IdleCi /\ IdleTs /\ IdleRun /\ IdleAg /\ IdleQ21 /\ IdleFp
    /\ InitAdv

NextAdvance == Advance

SpecAdvance == InitAdvance /\ [][NextAdvance]_vars

(***************************************************************************)
(* Properties of the runtime.                                              *)
(***************************************************************************)
AllKilled ==
    /\ handle_pc = "done"
    /\ \A w \in Workers : worker_pc[w] = "exited" /\ step_result[w] = "Killed"

\* C1 (kill liveness): once kill() has been called, eventually every
\* worker's step() has returned the Killed error, every worker has left
\* its closure, and kill() has returned.
KillLiveness == (handle_op = "kill") ~> AllKilled

\* kill() has returned after every worker was stopped.
KillLivenessWitness == handle_op = "kill" /\ AllKilled

\* The worker index i is used by its own worker only.
OwnOnly(i) == \A k \in 1 .. Len(seq_log[i]) : seq_log[i][k].caller = i

\* Worker w has made its n-th call sequence_next(w).
MadeCall(w, n) == n <= Len(seq_log[w])

\* C5: the k-th call sequence_next(w) returns k-1, whoever makes it and
\* however the calls interleave; so the n-th calls that two workers make
\* with their own index return the same value.
SequenceCounts ==
    /\ \A i \in Workers : \A k \in 1 .. Len(seq_log[i]) :
          seq_log[i][k].result = k - 1
    /\ \A w1, w2 \in Workers :
          OwnOnly(w1) /\ OwnOnly(w2) =>
             \A n \in 1 .. Min(Len(seq_log[w1]), Len(seq_log[w2])) :
                seq_log[w1][n].result = seq_log[w2][n].result

\* Two threads have called sequence_next with the same index, and two
\* workers have each made a second call with their own index.
SequenceCountsWitness ==
    /\ \E i \in Workers : \E k \in 2 .. Len(seq_log[i]) :
          seq_log[i][k].caller # seq_log[i][k - 1].caller
    /\ \E w1, w2 \in Workers :
          /\ w1 # w2
          /\ MadeCall(w1, 2) /\ MadeCall(w2, 2)

\* No two distinct workers hold the same value from their n-th call.
NoTwoSame(n) ==
    \A w1, w2 \in Workers :
       (w1 # w2 /\ MadeCall(w1, n) /\ MadeCall(w2, n)) =>
          seq_log[w1][n].result # seq_log[w2][n].result

AllCalled(n) == \A w \in Workers : MadeCall(w, n)

OwnCallsOnly == \A i \in Workers : OwnOnly(i)

\* C6 as stated: for every ordinal n, no two distinct workers obtain the
\* same value from their n-th call if and only if all workers made it.
ShardingDistinctIff ==
    OwnCallsOnly => \A n \in 1 .. MaxSeq : NoTwoSame(n) <=> AllCalled(n)

\* C6 as amended: when every worker has made its n-th call with its own
\* index, all workers hold one and the same value, n-1.
ShardingSameValue ==
    OwnCallsOnly =>
       \A n \in 1 .. MaxSeq :
          AllCalled(n) =>
             /\ Cardinality({seq_log[w][n].result : w \in Workers}) = 1
             /\ \A w \in Workers : seq_log[w][n].result = n - 1

\* Every worker has made two calls, each with its own index.
ShardingSameValueWitness ==
    OwnCallsOnly /\ AllCalled(2)

(***************************************************************************)
(* Properties of consolidation.                                            *)
(***************************************************************************)
\* The sum of the weights that sequence s holds for key k.
RECURSIVE WeightSum(_, _)
WeightSum(s, k) ==
    IF s = <<>> THEN 0
    ELSE WeightSum(Tail(s), k) + (IF Head(s)[1] = k THEN Head(s)[2] ELSE 0)

StrictlyAscending(s) == \A i \in 1 .. Len(s) - 1 : s[i][1] < s[i + 1][1]

NoZeroWeight(s) == \A i \in 1 .. Len(s) : s[i][2] # 0

\* s holds each key exactly once, with the sum of its weights in input, and
\* not at all when that sum is zero.
HoldsExactly(s, input) ==
    \A k \in ConsKeys :
       LET at == {i \in 1 .. Len(s) : s[i][1] = k}
       IN  IF WeightSum(input, k) = 0
             THEN at = {}
             ELSE /\ Cardinality(at) = 1
                  /\ \A i \in at : s[i][2] = WeightSum(input, k)

\* C2 (canonical form): consolidate leaves the vector strictly ascending
\* by key, without zero weights, holding for each key the sum of that
\* key's input weights; keys whose weights sum to zero are absent.
CanonicalForm ==
    (cons_pc = "done" /\ cons_from = 0) =>
       /\ StrictlyAscending(cons_vec)
       /\ NoZeroWeight(cons_vec)
       /\ HoldsExactly(cons_vec, cons_input)

\* consolidate has finished on an unsorted vector in which one key occurs
\* twice with weights that cancel and another key twice with weights that
\* add up.
CanonicalFormWitness ==
    /\ cons_pc = "done"
    /\ cons_from = 0
    /\ ~ StrictlyAscending(cons_input)
    /\ \E i, j \in 1 .. Len(cons_input) :
          /\ i < j
          /\ cons_input[i][1] > cons_input[j][1]
    /\ \E k \in ConsKeys :
          /\ WeightSum(cons_input, k) = 0
          /\ \E i \in 1 .. Len(cons_input) :
                cons_input[i][1] = k /\ cons_input[i][2] # 0
    /\ \E k \in ConsKeys :
          /\ WeightSum(cons_input, k) = 2
    /\ Len(cons_vec) = 1

(***************************************************************************)
(* Properties of the pair cursor.                                          *)
(***************************************************************************)
KeysOf(batch) == {batch[i][1] : i \in 1 .. Len(batch)}

\* The <<value, weight>> sequence batch holds under key k (empty if none).
ValsUnder(batch, k) ==
    IF k \in KeysOf(batch)
      THEN batch[CHOOSE i \in 1 .. Len(batch) : batch[i][1] = k][2]
      ELSE <<>>

WeightAt(vals, v) ==
    IF \E j \in 1 .. Len(vals) : vals[j][1] = v
      THEN vals[CHOOSE j \in 1 .. Len(vals) : vals[j][1] = v][2]
      ELSE 0

UnionKeys(p) == KeysOf(p.cursor1.data) \cup KeysOf(p.cursor2.data)

\* The <<value, weight>> sequence that underlying cursor c holds under key
\* k: the values of its key when it is positioned on k, none otherwise.
HeldUnder(c, k) ==
    IF Cursor_key_valid(c) /\ Cursor_key(c) = k THEN Cursor_vals(c) ELSE <<>>

\* The merge of two <<value, weight>> sequences: the values of either,
\* ascending, each with the sum of the weights the two give it.
Merge(v1, v2) ==
    LET all == SortedSeq({v1[j][1] : j \in 1 .. Len(v1)}
                         \cup {v2[j][1] : j \in 1 .. Len(v2)})
    IN  [j \in 1 .. Len(all) |->
            <<all[j], WeightAt(v1, all[j]) + WeightAt(v2, all[j])>>]

\* The values either underlying cursor holds under key k.
MergedVals(p, k) == Merge(HeldUnder(p.cursor1, k), HeldUnder(p.cursor2, k))

\* The values either batch holds under key k.
MergedBatchVals(p, k) ==
    Merge(ValsUnder(p.cursor1.data, k), ValsUnder(p.cursor2.data, k))

IsPrefix(s, t) == Len(s) <= Len(t) /\ s = SubSeq(t, 1, Len(s))

Reverse(s) == [i \in 1 .. Len(s) |-> s[Len(s) + 1 - i]]

\* C7: a fresh pair stepped with step_key while key_valid presents the
\* keys of the union of the two key sets, each once, ascending; key_valid
\* is false exactly when both underlying cursors are exhausted.
ForwardKeysUnion ==
    (cp_origin = "new" /\ ~ cp_sought) =>
       /\ key_valid(cp) <=>
             (Cursor_key_valid(cp.cursor1) \/ Cursor_key_valid(cp.cursor2))
       /\ IsPrefix(cp_keys, SortedSeq(UnionKeys(cp)))
       /\ key_valid(cp) =>
             (cp_keys # <<>> /\ key(cp) = cp_keys[Len(cp_keys)])
       /\ ~ key_valid(cp) => cp_keys = SortedSeq(UnionKeys(cp))

\* A fresh pair has been stepped to its end over three keys, one of which
\* both cursors hold.
ForwardKeysUnionWitness ==
    /\ cp_origin = "new"
    /\ ~ cp_sought
    /\ ~ key_valid(cp)
    /\ Len(cp_keys) = 3
    /\ KeysOf(cp.cursor1.data) \cap KeysOf(cp.cursor2.data) # {}
    /\ cp_last = <<"step_key">>

\* The values presented so far under the presented key are the first of
\* the sequence merged, with summed weights; all of it once val_valid is
\* false.
ValsPresented(p, vals, merged) ==
    key_valid(p) =>
       /\ IsPrefix(vals, merged)
       /\ val_valid(p) =>
             (vals # <<>> /\ vals[Len(vals)] = <<val(p), weight(p)>>)
       /\ ~ val_valid(p) => vals = merged

\* C8: under the key the pair presents, step_val while val_valid presents
\* every value either underlying cursor holds in its batch under that key
\* once, ascending, with the sum of the weights of the sides holding it
\* (zero when they cancel).
ValuesUnderKey == ValsPresented(cp, cp_vals, MergedBatchVals(cp, key(cp)))

\* The same for a pair that walks its keys forward.
ValuesUnderKeyForward ==
    (cp.key_direction = "Forward") =>
       ValsPresented(cp, cp_vals, MergedBatchVals(cp, key(cp)))

\* In either direction the values presented are those of the underlying
\* cursors that are positioned on the presented key.
ValuesOfCursorsOnKey == ValsPresented(cp, cp_vals, MergedVals(cp, key(cp)))

\* Under a key both cursors hold, the values were stepped through and one
\* of them, held by both with cancelling weights, was presented with
\* weight zero.
ValuesUnderKeyWitness ==
    /\ key_valid(cp)
    /\ current_key12(cp)
    /\ ~ val_valid(cp)
    /\ cp_last = <<"step_val">>
    /\ \E j \in 1 .. Len(cp_vals) : cp_vals[j][2] = 0

\* After fast_forward_keys and step_key_reverse the pair presents a key
\* that both batches hold from one cursor only, the other cursor having
\* been stepped forward off its last key: the values were stepped through
\* and a value of the other batch was never presented.
ValueOmittedAfterReverse ==
    /\ cp.key_direction = "Backward"
    /\ key_valid(cp)
    /\ ~ val_valid(cp)
    /\ cp_last = <<"step_val">>
    /\ key(cp) \in KeysOf(cp.cursor1.data) \cap KeysOf(cp.cursor2.data)
    /\ Len(cp_vals) < Len(MergedBatchVals(cp, key(cp)))

\* The keys >= k at or after the position of either underlying cursor.
SeekCandidates(p, k) ==
    LET from(c) == {c.data[i][1] : i \in Max(c.kpos, 1) .. Len(c.data)}
    IN  {x \in from(p.cursor1) \cup from(p.cursor2) : x >= k}

SetMin(S) == CHOOSE x \in S : \A y \in S : x <= y

\* C9: seek_key(k) on a forward pair leaves it on the smallest key >= k at
\* or after the position of either cursor, on that key's first value with
\* value direction Forward, or key-invalid if there is no such key.
SeekKeyPost ==
    [][(cp_last' = <<"seek_key">>) =>
          \A k \in SeekKeys :
             (cp' = seek_key(cp, k)) =>
                LET cand == SeekCandidates(cp, k)
                IN  IF cand = {} THEN ~ key_valid(cp')
                    ELSE /\ key_valid(cp')
                         /\ key(cp') = SetMin(cand)
                         /\ cp'.val_direction = "Forward"
                         /\ val_valid(cp')
                         /\ <<val(cp'), weight(cp')>>
                               = MergedBatchVals(cp, SetMin(cand))[1]]_vars

\* A seek has moved both cursors past their first key onto a common key.
SeekKeyPostWitness ==
    /\ cp_last = <<"seek_key">>
    /\ key_valid(cp)
    /\ current_key12(cp)
    /\ cp.cursor1.kpos > 1
    /\ cp.cursor2.kpos > 1

\* C10: after fast_forward_keys, step_key_reverse while key_valid presents
\* the keys of the union, each once, descending.
ReverseKeysUnion ==
    (cp_origin = "fast_forward" /\ ~ cp_sought /\ ~ key_valid(cp)) =>
       cp_keys = Reverse(SortedSeq(UnionKeys(cp)))

\* A later rewind_keys restores forward iteration.
RewindKeysUnion ==
    (cp_origin = "rewind" /\ ~ cp_sought) =>
       /\ IsPrefix(cp_keys, SortedSeq(UnionKeys(cp)))
       /\ ~ key_valid(cp) => cp_keys = SortedSeq(UnionKeys(cp))

(***************************************************************************)
(* Properties of the aggregates.                                           *)
(***************************************************************************)
\* C3: at every tick the incremental aggregate puts out what the
\* non-incremental reference puts out: aggregate_incremental(f) against
\* integrate().aggregate(f).differentiate() in the root circuit, and
\* aggregate_incremental_nested(f) against integrate_nested().integrate()
\* .aggregate(f).differentiate().differentiate_nested() in the child
\* circuit, for every aggregation function and every sequence of deltas.
IncrementalAggregateEquivalence ==
    agg_mode \in {"root", "nested"} => out_inc = out_ref

\* A tick of the second epoch of the child circuit at which a key of the
\* delta changes its aggregate: one record retracted, another inserted.
IncrementalAggregateEquivalenceWitness ==
    /\ agg_mode = "nested"
    /\ agg_epoch = 2
    /\ agg_tick = 2
    /\ agg_delta # batch_zero
    /\ \E o \in DOMAIN out_inc : out_inc[o] < 0
    /\ \E o \in DOMAIN out_inc : out_inc[o] > 0

\* The same in the root circuit, at a tick where the delayed integral is
\* not the previous delta.
RootAggregateWitness ==
    /\ agg_mode = "root"
    /\ agg_tick = 3
    /\ inc_state.delay # agg_delta
    /\ \E o \in DOMAIN out_inc : out_inc[o] < 0
    /\ \E o \in DOMAIN out_inc : out_inc[o] > 0

(***************************************************************************)
(* Properties of group transform.                                          *)
(***************************************************************************)
\* The values under key k of an indexed Z-set that have non-zero weight.
GroupValues(b, k) == {v \in GtVals : b[<<k, v>>] # 0}

\* What transformer t makes of a group: the weight it gives value v.
TransformerOf(t, S, v) ==
    LET below == Cardinality({u \in S : u < v})
        above == Cardinality({u \in S : u > v})
    IN  CASE t.name = "topk_asc" -> IF v \in S /\ below < t.k THEN 1 ELSE 0
          [] t.name \in {"topk_desc", "lastk_desc"} ->
                IF v \in S /\ above < t.k THEN 1 ELSE 0
          [] t.name = "reversed" -> IF v \in S THEN 1 ELSE 0

\* The net weight the last tick emitted for <<k, v>> is that of the
\* transformer applied to delta plus input trace, minus the output trace's.
NetWeightSound(k, v) ==
    pushed_weight(gt_pushed, <<k, v>>)
        = TransformerOf(gt_t, GroupValues(gt_input_trace, k), v)
          - gt_output_before[<<k, v>>]

\* The integrated output is the transformer applied to the integrated
\* input, key by key.
OutputIsTransformed(output, input) ==
    \A k \in GtKeys, v \in GtVals :
        output[<<k, v>>] = TransformerOf(gt_t, GroupValues(input, k), v)

\* C4: in every tick, for every key of the delta, the net weight emitted
\* per output value equals the transformer applied to delta plus input
\* trace, minus the output trace; and after every tick the integrated
\* output equals the transformer applied to the integrated input.
DeltaSoundness ==
    gt_tick > 0 =>
        /\ \A k \in GtKeys, v \in GtVals :
              (\E u \in GtVals : gt_delta[<<k, u>>] # 0) => NetWeightSound(k, v)
        /\ OutputIsTransformed(gt_output_trace, gt_input_trace)

\* The same for the transformers that walk their cursor forward only.
DeltaSoundnessForward ==
    gt_t.name # "topk_desc" => DeltaSoundness

\* A tick of a forward-walking Descending transformer that retracts one
\* value and inserts another.
DeltaSoundnessForwardWitness ==
    /\ gt_t.name = "lastk_desc"
    /\ gt_tick > 1
    /\ \E i \in 1 .. Len(gt_pushed) : gt_pushed[i][3] < 0
    /\ \E i \in 1 .. Len(gt_pushed) : gt_pushed[i][3] > 0

(***************************************************************************)
(* Properties of finite maps.                                              *)
(***************************************************************************)
\* The keys whose accumulated value is not zero.
NonZeroKeys(m) == {k \in FmKeys : fm_acc[m][k] # 0}

\* C11 (support invariant): after any sequence of the public operations
\* from the empty map, the underlying map has an entry for a key if and
\* only if the key's accumulated value is not zero, so that no entry holds
\* zero, support_size() is the number of keys of non-zero value, and
\* get_in_support(k) is None exactly when lookup(k) is zero.
SupportInvariant ==
    \A m \in FmNames :
       /\ \A k \in FmKeys : (k \in DOMAIN fm[m]) <=> (fm_acc[m][k] # 0)
       /\ \A k \in DOMAIN fm[m] : fm[m][k] # 0
       /\ FiniteHashMap_support_size(fm[m]) = Cardinality(NonZeroKeys(m))
       /\ \A k \in FmKeys :
             (FiniteHashMap_get_in_support(fm[m], k) = None)
                <=> (FiniteHashMap_lookup(fm[m], k) = 0)

\* lookup returns the accumulated value of every key, whatever the map
\* stores.
LookupIsAccumulated ==
    \A m \in FmNames : \A k \in FmKeys :
       FiniteHashMap_lookup(fm[m], k) = fm_acc[m][k]

\* Both maps hold values that several operations accumulated, one key was
\* cancelled by an addition.
LookupIsAccumulatedWitness ==
    /\ fm_last = <<"add", "a">>
    /\ fm_acc["a"][1] = 0 /\ fm_acc["b"][1] # 0
    /\ fm_acc["a"][2] = MaxWeight

(***************************************************************************)
(* Properties of checked integers.                                         *)
(***************************************************************************)
\* The mathematical result of the operation that ran.
ExactResult ==
    CASE ci_op \in {"add", "add_by_ref", "add_assign", "add_assign_by_ref"}
            -> ci_x + ci_y
      [] ci_op = "mul_by_ref" -> ci_x * ci_y
      [] ci_op \in {"neg", "neg_by_ref"} -> 0 - ci_x

\* C14 (checked arithmetic): each of add, add_by_ref, add_assign,
\* add_assign_by_ref, mul_by_ref, neg and neg_by_ref yields the exact
\* mathematical result when the type can represent it and panics with an
\* overflow otherwise; it never yields a wrapped value.
CheckedExact ==
    (ci_op \notin {"idle", "none"}) =>
       IF ExactResult \in IntValues
         THEN ci_out = Some(ExactResult)
         ELSE ci_out = Panic

\* MAX + 1 has panicked.
CheckedExactWitness ==
    /\ ci_op = "add_by_ref"
    /\ ci_x = i_MAX
    /\ ci_y = 1
    /\ ci_out = Panic

\* The negation of MIN has panicked, and a product out of range too.
CheckedNegMinWitness ==
    /\ ci_op \in {"neg", "mul_by_ref"}
    /\ ci_x = i_MIN
    /\ ci_y = 0 - 1
    /\ ci_out = Panic

(***************************************************************************)
(* Properties of product timestamps.                                       *)
(***************************************************************************)
\* The coordinates of a timestamp, the outermost first.
RECURSIVE Coordinates(_, _)
Coordinates(T, t) ==
    IF T = 0 THEN <<t>> ELSE Append(Coordinates(T - 1, t.outer), t.inner)

\* The componentwise order, maximum and minimum of coordinate sequences.
ComponentwiseLE(x, y) == \A i \in 1 .. Len(x) : x[i] <= y[i]
ComponentwiseMax(x, y) == [i \in 1 .. Len(x) |-> Max(x[i], y[i])]
ComponentwiseMin(x, y) == [i \in 1 .. Len(x) |-> Min(x[i], y[i])]

CoordA == Coordinates(ts_T, ts_a)
CoordB == Coordinates(ts_T, ts_b)

\* C19 (lattice): less_equal is the componentwise order; join is the
\* componentwise maximum and the least upper bound of its arguments under
\* less_equal; meet is the componentwise minimum and their greatest lower
\* bound.
ProductLattice ==
    /\ ts_op = <<"less_equal">> =>
          ts_out = Some(ComponentwiseLE(CoordA, CoordB))
    /\ ts_op = <<"join">> =>
          /\ Coordinates(ts_T, ts_out[1]) = ComponentwiseMax(CoordA, CoordB)
          /\ Product_less_equal(ts_T, ts_a, ts_out[1])
          /\ Product_less_equal(ts_T, ts_b, ts_out[1])
          /\ \A c \in TimestampsOf(ts_T) :
                (Product_less_equal(ts_T, ts_a, c)
                 /\ Product_less_equal(ts_T, ts_b, c))
                   => Product_less_equal(ts_T, ts_out[1], c)
    /\ ts_op = <<"meet">> =>
          /\ Coordinates(ts_T, ts_out[1]) = ComponentwiseMin(CoordA, CoordB)
          /\ Product_less_equal(ts_T, ts_out[1], ts_a)
          /\ Product_less_equal(ts_T, ts_out[1], ts_b)
          /\ \A c \in TimestampsOf(ts_T) :
                (Product_less_equal(ts_T, c, ts_a)
                 /\ Product_less_equal(ts_T, c, ts_b))
                   => Product_less_equal(ts_T, c, ts_out[1])

\* The join of two incomparable timestamps, differing from both.
ProductLatticeWitness ==
    /\ ts_op = <<"join">>
    /\ ts_T = 1
    /\ ts_a.outer < ts_b.outer
    /\ ts_a.inner > ts_b.inner
    /\ ts_out[1] # ts_a
    /\ ts_out[1] # ts_b

\* What advancing the clock of a scope does to the coordinates: the
\* coordinate of that scope counts one more tick (scope 0 is the innermost
\* and a scope beyond the outermost clock counts as the outermost), the
\* coordinates nested inside it restart at the minimum, the coordinates
\* outside it stay.
AdvancedCoordinates(x, scope) ==
    LET at == Max(1, Len(x) - scope)
    IN  [i \in 1 .. Len(x) |->
            IF i < at THEN x[i] ELSE IF i = at THEN x[i] + 1 ELSE 0]

\* C20 (advance): advance(0) increments inner and leaves outer; advance(k)
\* for k > 0 advances outer at scope k - 1 and resets inner to its
\* minimum.
ProductAdvance ==
    (ts_op[1] = "advance") =>
       /\ Coordinates(ts_T, ts_out[1]) = AdvancedCoordinates(CoordA, ts_op[2])
       /\ ts_op[2] = 0 =>
             /\ ts_out[1].inner = ts_a.inner + 1
             /\ ts_out[1].outer = ts_a.outer
       /\ ts_op[2] > 0 =>
             /\ ts_out[1].inner = 0
             /\ ts_out[1].outer # ts_a.outer

\* A twice nested timestamp with ticks on every clock advanced at scope 1:
\* the middle clock ticked and the inner one restarted.
ProductAdvanceWitness ==
    /\ ts_op = <<"advance", 1>>
    /\ ts_T = 2
    /\ ts_a.inner > 0
    /\ ts_a.outer.inner > 0
    /\ ts_a.outer.outer > 0
    /\ ts_out[1].inner = 0

(***************************************************************************)
(* Properties of Runtime::run and RuntimeHandle::join.                     *)
(***************************************************************************)
RunWorkers == 0 .. (run_n - 1)

\* C15 (join): join returns only after every worker thread has terminated;
\* it has then joined every worker, those after a panicked one included,
\* and it returns an error if and only if at least one worker panicked.
JoinAll ==
    (join_ret # "none") =>
       /\ \A w \in RunWorkers : Terminated(w)
       /\ Len(join_results) = run_n
       /\ \A w \in RunWorkers : join_results[w + 1] = thread_result(w)
       /\ (join_ret = "Err") <=> (\E w \in RunWorkers : th_pc[w] = "panicked")

\* join returned an error: the first worker panicked, the last one
\* returned, and both were joined.
JoinAllWitness ==
    /\ join_ret = "Err"
    /\ run_n = NumWorkers
    /\ th_pc[0] = "panicked"
    /\ th_pc[NumWorkers - 1] = "exited"
    /\ Len(join_results) = NumWorkers

\* join returned Ok after a kill.
JoinOkWitness ==
    /\ join_ret = "Ok"
    /\ run_n = NumWorkers
    /\ \A w \in Workers : KILL_SIGNAL[w]

\* C16 (worker context): the closure runs exactly once in each of the N
\* worker threads and in no other; in worker i it observes
\* worker_index() = i, so that the indexes observed are exactly 0 .. N-1,
\* and runtime() returns the runtime, whose num_workers() is N; a thread
\* no runtime spawned observes worker_index() = 0, runtime() = None and
\* kill_in_progress() = false.
WorkerContext ==
    /\ \A w \in Workers : f_runs[w] <= 1
    /\ \A w \in Workers : (f_runs[w] = 1) <=> (f_obs[w] # None)
    /\ \A w \in Workers : (w \notin RunWorkers) => f_runs[w] = 0
    /\ \A w \in RunWorkers : Terminated(w) => f_runs[w] = 1
    /\ \A w \in Workers : f_obs[w] # None =>
          /\ f_obs[w][1].worker_index = w
          /\ f_obs[w][1].runtime # None
          /\ num_workers(f_obs[w][1].runtime[1]) = run_n
    /\ (join_ret # "none") =>
          {f_obs[w][1].worker_index : w \in RunWorkers} = RunWorkers
    /\ f_obs[ClientThread] # None =>
          /\ f_obs[ClientThread][1].worker_index = 0
          /\ f_obs[ClientThread][1].runtime = None
          /\ f_obs[ClientThread][1].kill_in_progress = FALSE

\* Every closure of a runtime of NumWorkers workers ran, the runtime was
\* killed and joined, and the client thread looked at the API.
WorkerContextWitness ==
    /\ run_n = NumWorkers
    /\ \A w \in Workers : f_runs[w] = 1 /\ f_obs[w][1].worker_index = w
    /\ \A w \in Workers : KILL_SIGNAL[w]
    /\ f_obs[ClientThread] # None
    /\ join_ret # "none"

(***************************************************************************)
(* Properties of the Aggregate operator.                                   *)
(***************************************************************************)
\* The keys of the input, and f applied to one of them: to a cursor that
\* stands on the key and its values.
InputKeys == {k \in AggKeys : \E v \in AggVals : ag_i[<<k, v>>] # 0}

KeyAggregate(k) == agg_func(ag_f, Cursor_new(<<<<k, batch_vals(ag_i, k)>>>>))

InputKeySeq == SortedSeq(InputKeys)

\* f ran once per key of the input, in key order, and each run pushed its
\* result with weight +1.
OncePerKey ==
    /\ Len(ag_elements) = Cardinality(InputKeys)
    /\ \A j \in 1 .. Len(ag_elements) :
          ag_elements[j] = <<KeyAggregate(InputKeySeq[j]), 1>>

\* C18 as stated: f is evaluated exactly once for each key of the input
\* and each key's aggregate f(key, values) appears in the output with
\* weight +1; an empty input yields an empty output.
AggregatePerKeyWeightOne ==
    (ag_pc = "done") =>
       /\ OncePerKey
       /\ \A k \in InputKeys : zset_weight(ag_o, KeyAggregate(k)) = 1
       /\ (InputKeys = {}) => ag_o = zset_zero

\* C18, amended: f is evaluated exactly once for each key of the input and
\* the output is the sum over the keys of the key's aggregate with weight
\* +1: a record's weight is the number of keys whose aggregate it is; an
\* empty input yields an empty output.
AggregateSumOverKeys ==
    (ag_pc = "done") =>
       /\ OncePerKey
       /\ \A k \in InputKeys :
             zset_weight(ag_o, KeyAggregate(k)) =
                Cardinality({k2 \in InputKeys : KeyAggregate(k2) = KeyAggregate(k)})
       /\ \A o \in DOMAIN ag_o : \E k \in InputKeys : KeyAggregate(k) = o
       /\ (InputKeys = {}) => ag_o = zset_zero

\* Two keys with the same number of values under an aggregate that
\* returns the count without the key: one record of weight 2.
AggregateSumOverKeysWitness ==
    /\ ag_pc = "done"
    /\ ag_f = "count"
    /\ InputKeys = AggKeys
    /\ Len(ag_elements) = 2
    /\ \E o \in DOMAIN ag_o : ag_o[o] = 2

\* The empty input gave the empty output, without a call of f.
AggregateEmptyWitness ==
    /\ ag_pc = "done"
    /\ InputKeys = {}
    /\ ag_elements = <<>>
    /\ ag_o = zset_zero

\* C17 (idempotence): consolidating the vector that consolidate left
\* leaves it unchanged: consolidate(consolidate(T)) = consolidate(T).
ConsolidateIdempotent ==
    (cons_pc = "done" /\ cons_pass = 2) => cons_vec = cons_first

\* The second call has finished on what the first call made of an
\* unsorted vector with a repeated key and a key that cancelled.
ConsolidateIdempotentWitness ==
    /\ cons_pc = "done"
    /\ cons_pass = 2
    /\ Len(cons_first) = 2
    /\ cons_first[1][2] = 2
    /\ cons_vec = cons_first

\* C12 (equality by value): two maps reached through the public operations
\* compare equal if and only if lookup returns the same value for every
\* key, and is_zero() holds exactly for a map whose lookup is zero
\* everywhere.
EqualByValue ==
    /\ FiniteHashMap_eq(fm["a"], fm["b"])
          <=> (\A k \in FmKeys : FiniteHashMap_lookup(fm["a"], k)
                                    = FiniteHashMap_lookup(fm["b"], k))
    /\ \A m \in FmNames :
          FiniteHashMap_is_zero(fm[m])
             <=> (\A k \in FmKeys : FiniteHashMap_lookup(fm[m], k) = 0)

\* The pointwise sum of two maps, without the keys whose sum is zero.
PointwiseSum(a, b) ==
    LET sum(k) == FiniteHashMap_lookup(a, k) + FiniteHashMap_lookup(b, k)
    IN  [k \in {x \in FmKeys : sum(x) # 0} |-> sum(k)]

\* The four variants of addition agree, in both argument orders, and a map
\* and its negation cancel.
AdditionVariantsAgree ==
    LET a == fm["a"]
        b == fm["b"]
    IN  /\ FiniteHashMap_eq(FiniteHashMap_add(a, b), FiniteHashMap_add(b, a))
        /\ FiniteHashMap_eq(FiniteHashMap_add(a, b), FiniteHashMap_add_by_ref(a, b))
        /\ FiniteHashMap_eq(FiniteHashMap_add(a, b), FiniteHashMap_add_assign(a, b))
        /\ FiniteHashMap_eq(FiniteHashMap_add(a, b),
                            FiniteHashMap_add_assign_by_ref(a, b))
        /\ FiniteHashMap_is_zero(FiniteHashMap_add(a, FiniteHashMap_neg(a)))
        /\ FiniteHashMap_is_zero(FiniteHashMap_add(a, FiniteHashMap_neg_by_ref(a)))

\* Maps with entries on both sides, one key cancelling, were added.
AdditionVariantsAgreeWitness ==
    /\ fm_last = <<"add_assign_by_ref", "b">>
    /\ DOMAIN fm["a"] = FmKeys
    /\ DOMAIN fm["b"] = {2}
    /\ fm_acc["a"][1] = 0 - MaxWeight

\* C13 (addition): the sum of two maps is their pointwise sum with the
\* zero results removed, whatever the argument order and the variant:
\* a + b, b + a, a.add_by_ref(b), a.add_assign(b) and
\* a.add_assign_by_ref(b) are equal, and a + (-a) is the empty map.
AdditionPointwise ==
    /\ FiniteHashMap_add(fm["a"], fm["b"]) = PointwiseSum(fm["a"], fm["b"])
    /\ AdditionVariantsAgree

\* C21 as stated: recede is the inverse of advance: for every timestamp t
\* and every scope s, t.advance(s).recede(s) = t.
RecedeInvertsAdvance ==
    (ts_op[1] = "advance_recede") => ts_out = Some(ts_a)

\* The coordinates of a timestamp with the clocks nested inside a scope at
\* their minimum.
EpochCoordinates(x, scope) ==
    LET at == Max(1, Len(x) - scope)
    IN  [i \in 1 .. Len(x) |-> IF i <= at THEN x[i] ELSE 0]

\* C21, amended: t.advance(0).recede(0) = t; for a scope s > 0,
\* t.advance(s).recede(s) has the coordinates of t at scope s and outside
\* it, and the minimum in every coordinate nested inside scope s, so it is
\* t exactly when those coordinates of t are at their minimum.
RecedeAfterAdvance ==
    (ts_op[1] = "advance_recede") =>
       /\ Coordinates(ts_T, ts_out[1]) = EpochCoordinates(CoordA, ts_op[2])
       /\ ts_op[2] = 0 => ts_out = Some(ts_a)
       /\ (ts_out = Some(ts_a)) <=> (CoordA = EpochCoordinates(CoordA, ts_op[2]))

\* A timestamp with a tick on its inner clock, advanced and receded at
\* scope 1: the outer clock is back, the inner one is at its minimum.
RecedeAfterAdvanceWitness ==
    /\ ts_op = <<"advance_recede", 1>>
    /\ ts_T = 1
    /\ ts_a.inner > 0
    /\ ts_a.outer > 0
    /\ ts_out[1].outer = ts_a.outer
    /\ ts_out[1].inner = 0

\* The channel id the pattern finds in a text, if any.
CarriedChannelId(s) ==
    IF channel_regex_captures(s) = None THEN None
    ELSE Some(channel_regex_captures(s)[1][2])

RecognizedChannels == {apple, google, facebook, baidu}

RecognizedId(lc) ==
    IF lc = apple THEN <<"0">> ELSE IF lc = google THEN <<"1">>
    ELSE IF lc = facebook THEN <<"2">> ELSE <<"3">>

Q21Tuple(event, id) ==
    Some(<<<<event.auction, event.bidder, event.price, event.channel, id>>,
           q21_weight>>)

\* C22: a bid whose channel is apple, google, facebook or baidu in any case
\* maps to channel id "0", "1", "2", "3" with its weight; otherwise a bid
\* whose url carries channel_id=X maps to X; a bid with neither a
\* recognized channel nor channel_id= in its url is dropped, and so is
\* every event that is not a bid.
ChannelIdClassification ==
    (q21_pc = "done") =>
       LET lc == to_lowercase(q21_event.channel)
       IN  IF q21_event.kind # "Bid" THEN q21_out = None
           ELSE IF lc \in RecognizedChannels
             THEN q21_out = Q21Tuple(q21_event, RecognizedId(lc))
           ELSE IF CarriedChannelId(q21_event.url) # None
             THEN q21_out = Q21Tuple(q21_event, CarriedChannelId(q21_event.url)[1])
           ELSE q21_out = None

\* What q21 does: the recognized channels as in C22, and otherwise the
\* channel_id=X is looked for in the channel of the bid, not in its url.
ChannelIdFromChannel ==
    (q21_pc = "done") =>
       LET lc == to_lowercase(q21_event.channel)
       IN  IF q21_event.kind # "Bid" THEN q21_out = None
           ELSE IF lc \in RecognizedChannels
             THEN q21_out = Q21Tuple(q21_event, RecognizedId(lc))
           ELSE IF CarriedChannelId(q21_event.channel) # None
             THEN q21_out = Q21Tuple(q21_event, CarriedChannelId(q21_event.channel)[1])
           ELSE q21_out = None

\* A bid of an unrecognized channel whose url carries channel_id=7 and is
\* dropped.
ChannelIdInUrlDropped ==
    /\ q21_pc = "done"
    /\ q21_event.kind = "Bid"
    /\ q21_event.channel = <<"w", "e", "b">>
    /\ CarriedChannelId(q21_event.url) = Some(<<"7">>)
    /\ q21_out = None

\* kill() has gone through its loop body for worker w: the flag is stored
\* and the parker unparked.
KillReached(w) ==
    /\ handle_op = "kill"
    /\ \/ handle_pc \in {"join", "done"}
       \/ handle_i > w

\* The unpark of a worker comes after the store of its flag, and a worker
\* that kill() has reached and that is parked has the token to return with.
WakeupSafe ==
    \A w \in Workers :
       /\ (handle_op = "kill" /\ parker_token[w]) => kill_signal[w]
       /\ KillReached(w) =>
            /\ kill_signal[w]
            /\ (worker_pc[w] = "park") => parker_token[w]

\* C23 (no lost wakeup): kill() stores the flag of a worker before it
\* unparks the worker's parker, and a worker that is parked, or has made
\* its check and is about to park, while kill() runs is woken or does not
\* block, then observes kill_in_progress() = TRUE: it never stays parked.
NoLostWakeup ==
    /\ []WakeupSafe
    /\ \A w \in Workers :
          (handle_op = "kill" /\ worker_pc[w] = "park")
             ~> (worker_pc[w] # "park" /\ step_result[w] = "Killed")

\* A worker that passed its check before the store and is at park when
\* kill() has stored its flag and unparked it: the token is there.
NoLostWakeupWitness ==
    \E w \in Workers :
       /\ KillReached(w)
       /\ worker_pc[w] = "park"
       /\ kill_signal[w]
       /\ parker_token[w]

\* With the flag of worker w set: an evaluation in progress ends by
\* completing, no evaluation starts, and step() returns Killed from the
\* scheduler's check, in place of the next evaluation of the tick.
KilledStep(w) ==
    /\ (kill_signal[w] /\ worker_pc[w] = "eval" /\ worker_pc'[w] # "eval")
          => worker_pc'[w] = "check"
    /\ (kill_signal[w] /\ worker_pc[w] # "eval") => worker_pc'[w] # "eval"
    /\ (step_result'[w] = "Killed" /\ step_result[w] # "Killed")
          => /\ kill_signal[w]
             /\ worker_pc[w] = "check"
             /\ worker_pc'[w] = "killed"

\* C24: once the kill flag of a worker is set, the operator in evaluation
\* runs to completion, the scheduler starts no further evaluation after
\* its next check, step() returns Killed with the tick unfinished, and the
\* worker leaves its closure.
KillStopsWorker ==
    /\ [][\A w \in Workers : KilledStep(w)]_vars
    /\ \A w \in Workers :
          kill_signal[w] ~> (step_result[w] = "Killed" /\ worker_pc[w] = "exited")

\* One worker has its flag set while it evaluates an operator; another
\* one has returned Killed from step() and left its closure.
KillStopsWorkerWitness ==
    \E w, v \in Workers :
       /\ kill_signal[w]
       /\ worker_pc[w] = "eval"
       /\ worker_pc[v] = "exited"
       /\ step_result[v] = "Killed"

\* kill() has executed the store for worker w.
KillStored(w) ==
    /\ handle_op = "kill"
    /\ \/ handle_pc \in {"join", "done"}
       \/ handle_i > w
       \/ handle_i = w /\ handle_pc = "unpark"

\* C26: the kill flag of a worker is false until kill() stores it and is
\* never reset: once kill_in_progress() has returned TRUE in a worker (its
\* step() returned Killed) it is TRUE from then on, and when the loop of
\* kill() is over the flag of every worker is set.
KillFlagMonotone ==
    /\ [](\A w \in Workers : kill_signal[w] <=> KillStored(w))
    /\ [](\A w \in Workers : step_result[w] = "Killed" => kill_in_progress(w))
    /\ [][\A w \in Workers : kill_signal[w] => kill_signal'[w]]_vars

\* kill() is through its loop: every flag is set, one worker has seen
\* it and returned Killed, another one has not made its check yet.
KillFlagMonotoneWitness ==
    /\ handle_op = "kill"
    /\ handle_pc = "join"
    /\ \A w \in Workers : kill_signal[w]
    /\ \E w, v \in Workers :
          /\ step_result[w] = "Killed"
          /\ step_result[v] # "Killed"

\* Runtime::run has returned the handle.
RunReturned == run_pc \in {"held", "kill_store", "kill_unpark", "join", "collect", "done"}

\* The number of workers the loop of kill() has unparked so far.
RunKillUnparked ==
    CASE run_pc \in {"kill_store", "kill_unpark"} -> run_i
      [] run_pc \in {"join", "collect", "done"} /\ (\E t \in Threads : KILL_SIGNAL[t]) -> Len(run_workers)
      [] OTHER -> 0

\* The number of workers whose flag the loop of kill() has stored so far.
RunKillStored ==
    CASE run_pc = "kill_store" -> run_i
      [] run_pc = "kill_unpark" -> run_i + 1
      [] run_pc \in {"join", "collect", "done"} /\ (\E t \in Threads : KILL_SIGNAL[t]) -> Len(run_workers)
      [] OTHER -> 0

\* The worker's handle (unparker and kill flag) is in `workers`.
Handed(w) == \E j \in 1 .. Len(run_workers) : run_workers[j] = w

\* The order of the steps in the thread of worker w.
WorkerInitOrder(w) ==
    /\ (th_pc[w] \in {"unspawned", "set_runtime"}) => RUNTIME[w] = None
    /\ (th_pc[w] \notin {"unspawned", "set_runtime"}) =>
          /\ RUNTIME[w] # None
          /\ num_workers(RUNTIME[w][1]) = run_n
    /\ (th_pc[w] \notin {"unspawned", "set_runtime", "set_index"}) =>
          WORKER_INDEX[w] = w
    /\ Handed(w) <=> (th_pc[w] \notin {"unspawned", "set_runtime", "set_index", "send"})
    /\ (f_runs[w] > 0) => Handed(w)

\* C25: every worker registers RUNTIME, then WORKER_INDEX, then hands its
\* unparker and kill flag over the rendezvous channel, and only then
\* invokes f; run(N, f) returns after all N workers have done so, the
\* handle holds exactly the N worker controls, and a kill() issued right
\* after run() sets the flag and unparks the workers one after the other,
\* in the order of the handle, and has set the flag of every worker and
\* left a token in its parker when its loop is over.
RunInitOrder ==
    /\ \A w \in Workers : WorkerInitOrder(w)
    /\ RunReturned =>
          /\ Len(run_workers) = run_n
          /\ \A j \in 1 .. run_n : run_workers[j] = j - 1
          /\ \A w \in RunWorkers : Handed(w) /\ RUNTIME[w] # None /\ WORKER_INDEX[w] = w
    /\ (\E t \in Threads : KILL_SIGNAL[t]) =>
          /\ RunReturned
          /\ \A t \in Threads : KILL_SIGNAL[t] => (t \in RunWorkers)
    /\ \A j \in 1 .. Len(run_workers) :
          KILL_SIGNAL[run_workers[j]] <=> (j <= RunKillStored)
    /\ \A j \in 1 .. Len(run_workers) :
          parker_token[run_workers[j]] <=> (j <= RunKillUnparked)
    /\ (run_pc \in {"join", "collect", "done"} /\ RunKillStored > 0) =>
          \A t \in Threads : KILL_SIGNAL[t] <=> (t \in RunWorkers)

\* kill() right after run() returned: no worker has invoked f yet and
\* every worker has its flag set.
RunInitOrderWitness ==
    /\ run_n = NumWorkers
    /\ run_pc = "join"
    /\ \A w \in Workers : th_pc[w] = "call_f" /\ f_runs[w] = 0 /\ KILL_SIGNAL[w]
    /\ \A w \in Workers : parker_token[w]
    /\ Len(run_workers) = NumWorkers

\* The values the calls sequence_next(i) have returned so far.
Returned(i) == {seq_log[i][k].result : k \in 1 .. Len(seq_log[i])}

\* Thread t is inside sequence_next(i).
Inside(t, i) == seq_pc[t] # "idle" /\ seq_index[t] = i

\* C27: sequence_next is atomic per counter: with several threads calling
\* it with the same index, the first calls that create the entry
\* included, at most one thread is between the entry and the return, no
\* two calls return the same value, and after m calls the values returned
\* are exactly 0 .. m-1.
SequenceAtomic ==
    \A i \in Workers :
       /\ \A t1, t2 \in Workers : Inside(t1, i) /\ Inside(t2, i) => t1 = t2
       /\ \A k1, k2 \in 1 .. Len(seq_log[i]) :
             k1 # k2 => seq_log[i][k1].result # seq_log[i][k2].result
       /\ Returned(i) = 0 .. (Len(seq_log[i]) - 1)
       /\ local_store[i] = IF Len(seq_log[i]) = 0 /\ ~ \E t \in Workers : Inside(t, i)
                             THEN Absent ELSE Len(seq_log[i])

\* The first call with an index created the entry and returned; the
\* second call with that index, by another thread, holds the entry.
SequenceAtomicWitness ==
    \E i \in Workers, t \in Workers :
       /\ Len(seq_log[i]) = 1
       /\ seq_log[i][1].caller # t
       /\ Inside(t, i)
       /\ seq_pc[t] = "loaded"
       /\ seq_result[t] = 1

\* Cursor c is on the key the pair p presents.
OnPresentedKey(p, c) ==
    key_valid(p) /\ Cursor_key_valid(c) /\ Cursor_key(c) = key(p)

\* Cursor c is on a key strictly greater than the one p presents, or
\* behind its last key.
BeyondPresentedKey(p, c) ==
    key_valid(p) /\ (Cursor_key_valid(c) => Cursor_key(c) > key(p))

\* step_key takes pair p to pair q.
StepKeyFrame(p, q) ==
    /\ OnPresentedKey(p, p.cursor1) \/ OnPresentedKey(p, p.cursor2)
    /\ q.cursor1 = IF OnPresentedKey(p, p.cursor1)
                     THEN Cursor_step_key(p.cursor1) ELSE p.cursor1
    /\ q.cursor2 = IF OnPresentedKey(p, p.cursor2)
                     THEN Cursor_step_key(p.cursor2) ELSE p.cursor2
    /\ ~ OnPresentedKey(p, p.cursor1) =>
          BeyondPresentedKey(p, p.cursor1) /\ p.key_order = "Greater"
    /\ ~ OnPresentedKey(p, p.cursor2) =>
          BeyondPresentedKey(p, p.cursor2) /\ p.key_order = "Less"
    /\ q.val_direction = "Forward"
    /\ q.key_direction = "Forward"

\* C28: step_key on a forward pair advances exactly the underlying
\* cursors that are on the presented key: both when their keys are equal,
\* the lagging one otherwise; a cursor on a strictly greater key is left as
\* it is, and the value direction is Forward afterwards.
StepKeyAdvancesPresented ==
    [][(cp_last' = <<"step_key">>) => StepKeyFrame(cp, cp')]_vars

\* A new pair stepped once: cursor1 held the smaller key and moved to its
\* second key, cursor2 is still on its first key.
StepKeyAdvancesPresentedWitness ==
    /\ cp_last = <<"step_key">>
    /\ cp_origin = "new"
    /\ ~ cp_sought
    /\ Len(cp_keys) = 2
    /\ cp.cursor1.kpos = 2
    /\ cp.cursor2.kpos = 1
    /\ Cursor_key_valid(cp.cursor1)
    /\ Cursor_key_valid(cp.cursor2)
    /\ cp.val_direction = "Forward"

\* C29: with the key methods called in the key direction they belong to
\* and the value methods in theirs, no direction assertion of the pair
\* fails; update_val_order_forward is reached with val_direction = Forward
\* only, also from step_key and step_key_reverse after fast_forward_vals.
DirectionAssertionsHold == cp.asserts_ok

\* fast_forward_vals, then a step_key that lands on a key of both cursors:
\* the assertion of update_val_order_forward has failed.
AssertionFailsAfterFastForwardVals ==
    /\ cp_last = <<"step_key">>
    /\ ~ cp.asserts_ok
    /\ cp.key_order = "Equal"
    /\ cp.key_direction = "Forward"

\* seek_key sets the value direction before it updates the key order and
\* leaves the assertions alone.
SeekKeyKeepsAssertions ==
    [][(cp_last' = <<"seek_key">>) => (cp'.asserts_ok = cp.asserts_ok)]_vars

\* The length of the slice consolidate_slice was given.
InputSliceLen == Len(cons_input) - cons_from

\* C30: in consolidate_slice the write index offset is strictly less than
\* the read index at the start of every iteration and never exceeds the
\* length of the slice, so the elements read, written and swapped are
\* elements of the slice; the length returned is at most the length of the
\* slice, and the vector keeps nothing behind the returned prefix.
ConsolidateInBounds ==
    /\ (cons_pc = "loop") =>
          /\ SliceLen = InputSliceLen
          /\ cons_offset <= SliceLen
          /\ cons_offset < cons_index
          /\ (cons_index < SliceLen) =>
                /\ cons_from + cons_offset + 1 \in (cons_from + 1) .. Len(cons_vec)
                /\ cons_from + cons_index + 1 \in (cons_from + 1) .. Len(cons_vec)
                /\ cons_from + cons_offset + 2 \in (cons_from + 1) .. Len(cons_vec)
    /\ (cons_pc = "done") =>
          /\ cons_offset <= InputSliceLen
          /\ Len(cons_vec) = cons_from + cons_offset

\* An iteration on a slice vec[offset..] with offset > 0 is about to start
\* with the write index right behind the read index, one accumulation
\* already written.
ConsolidateInBoundsWitness ==
    /\ cons_pc = "loop"
    /\ cons_index < SliceLen
    /\ cons_offset = cons_index - 1
    /\ cons_offset >= 1
    /\ cons_from > 0

\* The elements before the slice, and the slice, of a vector.
PrefixOf(vec) == SubSeq(vec, 1, cons_from)
SuffixOf(vec) == SubSeq(vec, cons_from + 1, Len(vec))

\* The keys whose weights in s do not sum to zero.
KeysOfNonZeroSum(s) == {k \in ConsKeys : WeightSum(s, k) # 0}

\* C31 (frame of consolidate_from): the elements vec[..offset] keep their
\* values and order at every step; when consolidate_from returns,
\* vec[offset..] is the canonical form of the original vec[offset..], and
\* the vector is offset plus the number of suffix keys of non-zero summed
\* weight long.
ConsolidateFromFrame ==
    /\ (cons_pc # "idle") => PrefixOf(cons_vec) = PrefixOf(cons_input)
    /\ (cons_pc = "done") =>
          /\ StrictlyAscending(SuffixOf(cons_vec))
          /\ NoZeroWeight(SuffixOf(cons_vec))
          /\ HoldsExactly(SuffixOf(cons_vec), SuffixOf(cons_input))
          /\ Len(cons_vec) = cons_from + Cardinality(KeysOfNonZeroSum(SuffixOf(cons_input)))

\* consolidate_from returned on a vector whose prefix of two elements is
\* descending, holds a zero weight and a key of the suffix; the suffix of
\* two elements of one key became one element.
ConsolidateFromFrameWitness ==
    /\ cons_pc = "done"
    /\ cons_from = 2
    /\ Len(cons_input) = 4
    /\ cons_input[1][1] > cons_input[2][1]
    /\ cons_input[2][2] = 0
    /\ cons_input[1][1] = cons_input[3][1]
    /\ cons_input[3][1] = cons_input[4][1]
    /\ Len(cons_vec) = 3
    /\ cons_vec[3][2] = 2

(***************************************************************************)
(* Properties of the callbacks of group transform.                         *)
(***************************************************************************)
\* The <<value, weight>> pairs that the last tick pushed under key k.
RECURSIVE KeySegment(_, _)
KeySegment(pushed, k) ==
    IF pushed = <<>> THEN <<>>
    ELSE (IF Head(pushed)[1] = k
          THEN << <<Head(pushed)[2], Head(pushed)[3]>> >> ELSE <<>>)
         \o KeySegment(Tail(pushed), k)

\* The <<value, weight>> entries of a group handed to the transformer.
GroupEntries(group) ==
    [j \in 1 .. Len(group) |-> <<group[j][1], group[j][2][1][2]>>]

\* The retractions of the entries of a group whose value is in S, in the
\* order of the group.
RECURSIVE RetractionsOf(_, _)
RetractionsOf(entries, S) ==
    IF entries = <<>> THEN <<>>
    ELSE (IF Head(entries)[1] \in S
          THEN << <<Head(entries)[1], 0 - Head(entries)[2]>> >> ELSE <<>>)
         \o RetractionsOf(Tail(entries), S)

\* The values at most emitted[j] that are above every earlier emission.
DueAtEmission(emitted, j) ==
    {o \in GtVals : /\ o <= emitted[j][1]
                    /\ \A i \in 1 .. j - 1 : o > emitted[i][1]}

\* The values above every emission.
DueAtReturn(emitted) ==
    {o \in GtVals : \A i \in 1 .. Len(emitted) : o > emitted[i][1]}

\* From emission j on: the retractions due before each emission, the
\* emission, and after the last one the retractions that are left.
RECURSIVE AscendingFrom(_, _, _)
AscendingFrom(emitted, entries, j) ==
    IF j > Len(emitted) THEN RetractionsOf(entries, DueAtReturn(emitted))
    ELSE RetractionsOf(entries, DueAtEmission(emitted, j))
         \o <<emitted[j]>> \o AscendingFrom(emitted, entries, j + 1)

\* How many pairs of s carry value v.
CountValue(s, v) == Cardinality({i \in 1 .. Len(s) : s[i][1] = v})

\* C32 (Ascending retractions): for an Ascending transformer, each value v
\* the wrapped transformer emits is preceded by the retraction (same value,
\* negated weight) of every output-trace value <= v not yet retracted, in
\* ascending order; after the transformer returns the output-trace values
\* that are left are retracted, so that every output-trace value of the
\* key is retracted exactly once.
AscendingRetractions ==
    (gt_tick > 0 /\ monotonicity(gt_t) = "Ascending") =>
       \A n \in 1 .. Len(gt_calls) :
          LET call == gt_calls[n]
              entries == GroupEntries(call[3])
              pushed == KeySegment(gt_pushed, call[1])
          IN  /\ \A j \in 1 .. Len(entries) - 1 :
                    entries[j][1] < entries[j + 1][1]
              /\ pushed = AscendingFrom(call[4], entries, 1)
              /\ \A v \in GtVals :
                    CountValue(pushed, v)
                       = CountValue(call[4], v) + CountValue(entries, v)

\* Two values emitted against an output trace of three: one retraction
\* before each emission and one after the transformer has returned.
AscendingRetractionsWitness ==
    /\ gt_tick > 0
    /\ monotonicity(gt_t) = "Ascending"
    /\ Len(gt_calls) = 1
    /\ Len(gt_calls[1][4]) = 2
    /\ Len(gt_calls[1][3]) = 3
    /\ gt_pushed = << <<1, 1, 0 - 1>>, <<1, 1, 1>>, <<1, 2, 0 - 1>>,
                      <<1, 2, 1>>, <<1, 3, 0 - 1>> >>

\* How many times the pair x occurs in s.
CountPair(s, x) == Cardinality({i \in 1 .. Len(s) : s[i] = x})

\* s is in the order of Vec::sort: by value, then by weight.
SortedPairs(s) ==
    \A i \in 1 .. Len(s) - 1 :
       \/ s[i][1] < s[i + 1][1]
       \/ s[i][1] = s[i + 1][1] /\ s[i][2] <= s[i + 1][2]

\* C33 (Unordered is a full replacement): for an Unordered transformer,
\* after all the emissions of the transformer every entry of the key's
\* output trace is retracted with negated weight, whether or not its value
\* was emitted again, and the buffered emissions and retractions reach the
\* builder sorted.
UnorderedFullReplacement ==
    (gt_tick > 0 /\ monotonicity(gt_t) = "Unordered") =>
       \A n \in 1 .. Len(gt_calls) :
          LET call == gt_calls[n]
              entries == GroupEntries(call[3])
              pushed == KeySegment(gt_pushed, call[1])
          IN  /\ call[5] = call[4] \o RetractionsOf(entries, GtVals)
              /\ SortedPairs(pushed)
              /\ Len(pushed) = Len(call[5])
              /\ \A i \in 1 .. Len(pushed) :
                    CountPair(pushed, pushed[i]) = CountPair(call[5], pushed[i])

\* Values 3 and 1 emitted in this order against an output trace that holds
\* 1, 2 and 3: all three are retracted.
UnorderedFullReplacementWitness ==
    /\ gt_tick > 0
    /\ monotonicity(gt_t) = "Unordered"
    /\ Len(gt_calls) = 1
    /\ gt_calls[1][4] = << <<3, 1>>, <<1, 1>> >>
    /\ Len(gt_calls[1][3]) = 3
    /\ gt_pushed = << <<1, 1, 0 - 1>>, <<1, 1, 1>>, <<1, 2, 0 - 1>>,
                      <<1, 3, 0 - 1>>, <<1, 3, 1>> >>

\* The wrapped transformer emitted the values in the order it declares.
DeclaredOrder(t, emitted) ==
    \A i \in 1 .. Len(emitted) - 1 :
       CASE monotonicity(t) = "Ascending" -> emitted[i][1] <= emitted[i + 1][1]
         [] monotonicity(t) = "Descending" -> emitted[i][1] >= emitted[i + 1][1]
         [] monotonicity(t) = "Unordered" -> TRUE

\* The pairs of s, last first.
Reversed(s) == [i \in 1 .. Len(s) |-> s[Len(s) + 1 - i]]

\* C34 (order of the pushes): whenever the wrapped transformer emits in its
\* declared order, the tuples eval pushes to the builder during one tick
\* are in non-decreasing (key, value) order: an Ascending transformer's
\* callbacks are pushed as they come, a Descending transformer's are
\* buffered and pushed last first, an Unordered transformer's are buffered
\* and pushed sorted.
PushedInOrder ==
    (gt_tick > 0 /\ \A n \in 1 .. Len(gt_calls) :
                       DeclaredOrder(gt_t, gt_calls[n][4])) =>
       /\ \A i \in 1 .. Len(gt_pushed) - 1 :
             \/ gt_pushed[i][1] < gt_pushed[i + 1][1]
             \/ /\ gt_pushed[i][1] = gt_pushed[i + 1][1]
                /\ gt_pushed[i][2] <= gt_pushed[i + 1][2]
       /\ \A n \in 1 .. Len(gt_calls) :
             LET pushed == KeySegment(gt_pushed, gt_calls[n][1])
             IN  CASE monotonicity(gt_t) = "Ascending" ->
                         pushed = gt_calls[n][5]
                   [] monotonicity(gt_t) = "Descending" ->
                         pushed = Reversed(gt_calls[n][5])
                   [] monotonicity(gt_t) = "Unordered" -> SortedPairs(pushed)

\* A Descending transformer emitted two values in descending order for the
\* first of two keys, and retractions and insertions were pushed for both.
PushedInOrderWitness ==
    /\ gt_tick > 0
    /\ monotonicity(gt_t) = "Descending"
    /\ Len(gt_calls) = 2
    /\ Len(gt_calls[1][4]) = 2
    /\ gt_calls[1][4][1][1] > gt_calls[1][4][2][1]
    /\ Len(gt_calls[1][3]) > 0
    /\ Len(gt_pushed) >= 4
    /\ gt_pushed[Len(gt_pushed)][1] = 2

\* C35 (no (key, value) pushed twice): during one tick eval pushes no two
\* tuples with the same (key, value) to the builder: the pushed sequence is
\* strictly increasing in (key, value), also when the transformer emits a
\* value that the output trace holds already.
PushedStrictlyIncreasing ==
    \A i \in 1 .. Len(gt_pushed) - 1 :
       \/ gt_pushed[i][1] < gt_pushed[i + 1][1]
       \/ /\ gt_pushed[i][1] = gt_pushed[i + 1][1]
          /\ gt_pushed[i][2] < gt_pushed[i + 1][2]

\* In the second tick the smallest value, which the output trace holds, was
\* emitted again: its retraction and its insertion were both pushed.
ReemittedValuePushedTwice ==
    /\ gt_tick = 2
    /\ gt_t = [name |-> "topk_asc", k |-> 1]
    /\ gt_output_before[<<1, 2>>] = 1
    /\ gt_delta[<<1, 3>>] = 1
    /\ gt_pushed = << <<1, 2, 0 - 1>>, <<1, 2, 1>> >>

\* The keys of an indexed Z-set.
GroupKeysOf(b) == {k \in GtKeys : \E v \in GtVals : b[<<k, v>>] # 0}

\* The <<value, weight>> entries under key k of an indexed Z-set, in
\* ascending order of the values; empty when the key is absent.
EntriesUnder(b, k) ==
    LET n == Cardinality(GroupValues(b, k))
    IN  [j \in 1 .. n |->
            LET v == CHOOSE u \in GroupValues(b, k) :
                        Cardinality({x \in GroupValues(b, k) : x < u}) = j - 1
            IN  <<v, b[<<k, v>>]>>]

\* The input trace that the last tick read: the integral without the delta.
InputTraceBefore ==
    [e \in GtKeys \X GtVals |-> gt_input_trace[e] - gt_delta[e]]

\* C36 (one invocation per key of the delta): eval invokes the transformer
\* once for each key of the delta, in ascending key order, and for no other
\* key; the input-trace cursor it passes holds the values of that key in
\* the input trace and is empty when the input trace lacks the key, and
\* likewise, independently, the output-trace cursor.
OneCallPerDeltaKey ==
    gt_tick > 0 =>
       /\ Len(gt_calls) = Cardinality(GroupKeysOf(gt_delta))
       /\ \A n \in 1 .. Len(gt_calls) : gt_calls[n][1] \in GroupKeysOf(gt_delta)
       /\ \A n \in 1 .. Len(gt_calls) - 1 : gt_calls[n][1] < gt_calls[n + 1][1]
       /\ \A n \in 1 .. Len(gt_calls) :
             LET k == gt_calls[n][1]
             IN  /\ GroupEntries(gt_calls[n][2])
                       = EntriesUnder(InputTraceBefore, k)
                 /\ GroupEntries(gt_calls[n][3])
                       = EntriesUnder(gt_output_before, k)
                 /\ (k \notin GroupKeysOf(InputTraceBefore)) => gt_calls[n][2] = <<>>
                 /\ (k \notin GroupKeysOf(gt_output_before)) => gt_calls[n][3] = <<>>

\* Two keys in the delta: the first is in the input trace only, the second
\* in the output trace only.
OneCallPerDeltaKeyWitness ==
    /\ gt_tick > 0
    /\ Len(gt_calls) = 2
    /\ gt_calls[1][2] # <<>> /\ gt_calls[1][3] = <<>>
    /\ gt_calls[2][2] = <<>> /\ gt_calls[2][3] # <<>>

\* A key in both traces, and a key in neither.
BothOrNeitherTrace ==
    /\ gt_tick > 0
    /\ Len(gt_calls) = 2
    /\ gt_calls[1][2] # <<>> /\ gt_calls[1][3] # <<>>
    /\ gt_calls[2][2] = <<>> /\ gt_calls[2][3] = <<>>

(***************************************************************************)
(* Properties of the AggregateIncremental operator.                        *)
(***************************************************************************)
\* The keys of an indexed Z-set of the aggregate circuits.
BatchKeys(b) == {k \in AggKeys : \E v \in AggVals : b[<<k, v>>] # 0}

\* f of the group of key k in the integral.
GroupAggregate(integral, k) ==
    agg_func(agg_f, Cursor_new(<< <<k, batch_vals(integral, k)>> >>))

\* The keys of the delta that the integral holds and whose group in the
\* integral aggregates to record o.
KeysYielding(op, o) ==
    {k \in BatchKeys(op.delta) \cap BatchKeys(op.integral) :
        GroupAggregate(op.integral, k) = o}

\* The operator's output holds, for each key of the delta present in the
\* integral, f of the key's group with weight +1 or -1, and nothing else.
VisitsDeltaKeys(op) ==
    LET w == IF op.polarity THEN 1 ELSE 0 - 1
    IN  /\ \A k \in BatchKeys(op.delta) \cap BatchKeys(op.integral) :
              LET o == GroupAggregate(op.integral, k)
              IN  zset_weight(op.out, o) = w * Cardinality(KeysYielding(op, o))
        /\ \A o \in DOMAIN op.out : KeysYielding(op, o) # {}

\* C37 (AggregateIncremental visits the keys of the delta only): for each
\* key of the delta present in the integral it is given, the operator emits
\* f of that key's group in the integral, with weight -1 when polarity is
\* false (retract_old, given the integral before the tick) and +1 when
\* polarity is true (insert_new, given the integral after the tick); a key
\* of the delta absent from the integral and a key absent from the delta
\* contribute nothing.
IncrementalVisitsDeltaKeys ==
    (agg_mode \in {"root", "nested"} /\ agg_tick > 0) =>
       /\ Len(inc_ops) = 2
       /\ inc_ops[1].polarity = FALSE
       /\ inc_ops[2].polarity = TRUE
       /\ inc_ops[1].delta = inc_ops[2].delta
       /\ (agg_mode = "root") => inc_ops[1].delta = agg_delta
       /\ inc_ops[2].integral = inc_state.integrate
       /\ inc_ops[2].integral = batch_plus(inc_ops[1].integral, inc_ops[1].delta)
       /\ VisitsDeltaKeys(inc_ops[1])
       /\ VisitsDeltaKeys(inc_ops[2])

\* A tick of the root circuit whose delta holds key 2, new to the integral,
\* and key 1, which the integral held before and after: retract_old emits
\* one record, insert_new two, and key 2 is retracted nowhere.
IncrementalVisitsDeltaKeysWitness ==
    /\ agg_mode = "root"
    /\ agg_f = "sum"
    /\ agg_tick = 2
    /\ BatchKeys(agg_delta) = {1, 2}
    /\ BatchKeys(inc_ops[1].integral) = {1}
    /\ BatchKeys(inc_ops[2].integral) = {1, 2}
    /\ Cardinality(DOMAIN inc_ops[1].out) = 1
    /\ Cardinality(DOMAIN inc_ops[2].out) = 2
    /\ \A o \in DOMAIN inc_ops[1].out : inc_ops[1].out[o] = 0 - 1
    /\ \A o \in DOMAIN inc_ops[2].out : inc_ops[2].out[o] = 1

\* A key of the integral that the delta lacks is left alone, and a key of
\* the delta that the integral lacks after the tick is not inserted.
DeltaKeyAbsentFromIntegral ==
    /\ agg_mode = "root"
    /\ BatchKeys(agg_delta) = {1}
    /\ BatchKeys(inc_ops[1].integral) = {1, 2}
    /\ BatchKeys(inc_ops[2].integral) = {2}
    /\ Cardinality(DOMAIN inc_ops[1].out) = 1
    /\ inc_ops[2].out = zset_zero

(***************************************************************************)
(* Properties of the fixed-point query.                                    *)
(***************************************************************************)
\* C38 (every operator answers the fixed-point query): fixedpoint(scope) of
\* Apply2, Aggregate, AggregateIncremental and GroupTransform returns a
\* boolean without failing, and the boolean is true, so that a nested scope
\* that holds them detects its fixed point.
FixedpointAnswered ==
    /\ fp_out # Unimplemented
    /\ (fp_i > 0) => fp_out = Some(TRUE)

\* Aggregate, AggregateIncremental and GroupTransform answer true.
FixedpointOfTheOthers ==
    (fp_i > 0 /\ fp_ops[fp_i] # "Apply2") => fp_out = Some(TRUE)

\* A scope of three operators of which the last is an Apply2: the first
\* two answered true and the query was aborted at the third.
Apply2FixedpointPanics ==
    /\ fp_ops = <<"Aggregate", "GroupTransform", "Apply2">>
    /\ fp_i = 3
    /\ fp_out = Unimplemented

(***************************************************************************)
(* Properties of advance.                                                  *)
(***************************************************************************)
\* C39 (advance counts the prefix): for every slice length, 0 and 8, 9 and
\* 10 included, and every predicate that is true on a prefix of the slice
\* and false afterwards, advance returns the length of that prefix and
\* reads the slice at no index outside it.
AdvanceCountsPrefix ==
    (adv_pc = "done") =>
       /\ adv_out = Some(adv_bound)
       /\ adv_reads \subseteq 0 .. Len(adv_slice) - 1

\* The exponential search went up by 1, 2 and 4 and came back down: the
\* prefix has 17 of 20 elements.
AdvanceCountsPrefixWitness ==
    /\ adv_pc = "done"
    /\ Len(adv_slice) = 20
    /\ adv_bound = 17
    /\ adv_out = Some(17)
    /\ {10, 12, 16, 18, 17} \subseteq adv_reads

\* The short slices and the lengths around small_limit.
AdvanceSmallLimit ==
    /\ adv_pc = "done"
    /\ Len(adv_slice) \in {0, 8, 9, 10}
    /\ adv_bound = Len(adv_slice)
    /\ adv_out = Some(Len(adv_slice))

====
